---- MODULE Spec2Model ----
(***************************************************************************)
(* Model of the MaxiMeter custom-component runtime: the plugin registry    *)
(* (registry.py), the component base class (base_component.py), the        *)
(* dependency cache (dependencies.py) and the JSON-line dispatch loop      *)
(* (bridge.py).  One action is one iteration of BridgeProtocol.run: a line *)
(* is read, its handler runs to completion and the response is sent.       *)
(***************************************************************************)
EXTENDS Integers, Sequences, FiniteSets, TLC

VARIABLES pc, running, shm_available, shm_open,
          plugins, instances, instance_errors,
          disk, gen, checked, importable, uuid_count,
          nRead, nSent, written,
          req, resp, hooks, old_plugins,
          destroyed, nEdits,
          shm_region, _last_frame, header, shm_data, frames_read,
          descriptor, arg, result, again, _commands, cmds, ops

\* The dispatch loop and the registry, without the reader and its flag.
bridgeVars == <<pc, running, plugins, instances, instance_errors,
                disk, gen, checked, importable, uuid_count, nSent, written,
                req, resp, hooks, old_plugins, destroyed, nEdits>>
\* The shared region as the host left it (header) and the result of the
\* reader's last read_raw (shm_data) and the frame counters its reads have
\* taken so far (frames_read), followed step by step in ShmSpec only.
regionVars == <<header, shm_data, frames_read>>
\* A property descriptor, an input, the value computed from them and the
\* value computed from that value in turn (PropSpec, AudioSpec); the buffer of a render context, the result of its
\* last drain and the calls made on it (CtxSpec).
unitVars == <<descriptor, arg, result, again>>
ctxVars == <<_commands, cmds, ops>>

vars == <<pc, running, shm_available, shm_open, plugins, instances, instance_errors,
          disk, gen, checked, importable, uuid_count, nRead, nSent, written,
          req, resp, hooks, old_plugins, destroyed, nEdits,
          shm_region, _last_frame, header, shm_data, unitVars, ctxVars>>

(***************************************************************************)
(* Bounds of the model.                                                    *)
(***************************************************************************)
MaxSteps == 3
\* ShmSpec: the highest frame counter the host publishes.
MaxFrame == 2
\* CtxSpec: the number of calls made on one render context.
MaxOps == 3

(***************************************************************************)
(* Values and dictionaries.  A Python value is a record [kind, n]; a dict  *)
(* is a function whose domain is its key set.                              *)
(***************************************************************************)
NoneV == [kind |-> "none", n |-> 0]
IntV(n) == [kind |-> "int", n |-> n]
StrV == [kind |-> "str", n |-> 0]
\* A float that is a multiple of one half, kept as the number of halves; the
\* infinities (n is the sign) and NaN.
FloatV(halves) == [kind |-> "float", n |-> halves]
InfV(sign) == [kind |-> "inf", n |-> sign]
NanV == [kind |-> "nan", n |-> 0]

EmptyMap == [k \in {} |-> NoneV]
Put(m, k, v) == [x \in (DOMAIN m) \cup {k} |-> IF x = k THEN v ELSE m[x]]
Pop(m, k) == [x \in (DOMAIN m) \ {k} |-> m[x]]
Max2(a, b) == IF a > b THEN a ELSE b
Min2(a, b) == IF a < b THEN a ELSE b
Update(m, d) == [x \in (DOMAIN m) \cup (DOMAIN d) |-> IF x \in DOMAIN d THEN d[x] ELSE m[x]]

(***************************************************************************)
(* The plugin directory.  A unit on disk either fails to load, is absent,  *)
(* or defines component classes (inspect.getmembers lists them by name).   *)
(* A class is described by what the registry can observe of it.            *)
(***************************************************************************)
Files == <<"f1", "f2">>
Packages == {"numpy"}
NoRaise == "none"

Class(name, man, init, init_exc, requires, init_sets) ==
    [name |-> name, man |-> man, init |-> init, init_exc |-> init_exc,
     requires |-> requires, init_sets |-> init_sets]
ClsA == Class("KA", "com.a", "ok", NoRaise, <<>>, FALSE)
ClsABad == Class("KA", "bad", "ok", NoRaise, <<>>, FALSE)
ClsB == Class("KB", "com.b", "ok", NoRaise, <<"numpy">>, TRUE)
ClsBasA == Class("KB", "com.a", "on_init", "KeyError", <<>>, FALSE)
ClsC == Class("KC", "com.b", "ctor", "ValueError", <<>>, FALSE)
NoClass == Class("?", "bad", "ok", NoRaise, <<>>, FALSE)

Broken == [loads |-> FALSE, present |-> TRUE, classes |-> <<>>]
Missing == [loads |-> FALSE, present |-> FALSE, classes |-> <<>>]
Unit(cs) == [loads |-> TRUE, present |-> TRUE, classes |-> cs]
UnitContents == {Broken, Missing, Unit(<<ClsA>>), Unit(<<ClsABad>>), Unit(<<ClsB>>),
                 Unit(<<ClsA, ClsBasA>>), Unit(<<ClsC>>)}

NoDir == [f \in {} |-> Missing]
EditContents == {Broken, Missing, Unit(<<ClsA>>), Unit(<<ClsABad>>), Unit(<<ClsC>>)}
DiskStates == {NoDir} \cup [{"f1", "f2"} -> UnitContents]

ManifestIds == {"com.a", "com.b"}
ErrorId(stem) == "error." \o stem

(***************************************************************************)
(* registry.py: PluginInfo and ComponentRegistry.                          *)
(***************************************************************************)
NoError == "None"

PluginInfo(path, cls_name, man, cls, err, g) ==
    [module_path |-> path, class_name |-> cls_name, manifest |-> man,
     component_class |-> cls, load_error |-> err, enabled |-> TRUE, gen |-> g]

\* Mutant: a class is registered under its class name.
_register_class_by_name(plg, cls, path, g) ==
    IF cls.man # "bad"
    THEN Put(plg, cls.name, PluginInfo(path, cls.name, cls.man, cls, NoError, g))
    ELSE Put(plg, ErrorId(cls.name),
             PluginInfo(path, cls.name, ErrorId(cls.name), NoClass, "manifest_error", g))

\* Mutant: a manifest id that is already registered keeps its record.
_register_class_first_wins(plg, cls, path, g) ==
    IF cls.man # "bad"
    THEN IF cls.man \in DOMAIN plg THEN plg
         ELSE Put(plg, cls.man, PluginInfo(path, cls.name, cls.man, cls, NoError, g))
    ELSE Put(plg, ErrorId(cls.name),
             PluginInfo(path, cls.name, ErrorId(cls.name), NoClass, "manifest_error", g))

_register_class(plg, cls, path, g) ==
    IF cls.man # "bad"
    THEN Put(plg, cls.man, PluginInfo(path, cls.name, cls.man, cls, NoError, g))
    ELSE Put(plg, ErrorId(cls.name),
             PluginInfo(path, cls.name, ErrorId(cls.name), NoClass, "manifest_error", g))

RECURSIVE RegisterAll(_, _, _, _)
RegisterAll(plg, classes, path, g) ==
    IF classes = <<>> THEN plg
    ELSE RegisterAll(_register_class(plg, Head(classes), path, g), Tail(classes), path, g)

UnitAt(d, path) == IF path \in DOMAIN d THEN d[path] ELSE Missing

_try_load_module(plg, d, path, g) ==
    LET u == UnitAt(d, path) IN
    IF u.loads
    THEN RegisterAll(plg, u.classes, path, g)
    ELSE Put(plg, ErrorId(path), PluginInfo(path, "?", ErrorId(path), NoClass, "load_error", g))

\* Mutant: a unit that fails to load ends the pass.
RECURSIVE LoadEntries_AbortsOnFailure(_, _, _, _)
LoadEntries_AbortsOnFailure(plg, d, entries, g) ==
    IF entries = <<>> THEN plg
    ELSE IF ~UnitAt(d, Head(entries)).loads THEN plg
    ELSE LoadEntries_AbortsOnFailure(_try_load_module(plg, d, Head(entries), g), d,
                                     Tail(entries), g)

RECURSIVE LoadEntries(_, _, _, _)
LoadEntries(plg, d, entries, g) ==
    IF entries = <<>> THEN plg
    ELSE LoadEntries(_try_load_module(plg, d, Head(entries), g), d, Tail(entries), g)

Entries(d) == SelectSeq(Files, LAMBDA f : f \in DOMAIN d /\ d[f].present)

\* Mutant: the pass adds to the table it finds.
scan_incremental(plg, d, g) ==
    IF d = NoDir THEN plg ELSE LoadEntries(plg, d, Entries(d), g)

\* self._plugins.clear() comes first, also when the directory is missing.
scan(plg, d, g) ==
    LET cleared == EmptyMap IN
    IF d = NoDir THEN cleared ELSE LoadEntries(cleared, d, Entries(d), g)

reload_core(plg, inst, d, manifest_id, g) ==
    IF manifest_id \notin DOMAIN plg
    THEN [plugins |-> plg, instances |-> inst, ret |-> FALSE, old_plugins |-> EmptyMap]
    ELSE LET path == plg[manifest_id].module_path
             old == plg
             loaded == _try_load_module(plg, d, path, g)
         IN IF manifest_id \in DOMAIN loaded /\ loaded[manifest_id].load_error = NoError
            THEN [plugins |-> loaded, instances |-> inst, ret |-> TRUE, old_plugins |-> old]
            ELSE [plugins |-> Put(loaded, manifest_id, old[manifest_id]),
                  instances |-> inst, ret |-> FALSE, old_plugins |-> old]

\* Mutant: a successful reload rebinds the live instances of the plugin.
reload_plugin_migrating(plg, inst, d, manifest_id, g) ==
    LET r == reload_core(plg, inst, d, manifest_id, g) IN
    [r EXCEPT !.instances =
        [i \in DOMAIN inst |->
            IF r.ret /\ inst[i].cls.man = manifest_id
            THEN [inst[i] EXCEPT !.gen = g, !.cls = r.plugins[manifest_id].component_class]
            ELSE inst[i]]]

reload_plugin(plg, inst, d, manifest_id, g) == reload_core(plg, inst, d, manifest_id, g)

(***************************************************************************)
(* dependencies.py: the process-wide availability cache.                   *)
(***************************************************************************)
BUILTIN_PACKAGES == {"json", "math"}

\* Mutant: the package is looked up again on every call.
is_available_rechecks(ch, imp, pkg) ==
    IF pkg \in BUILTIN_PACKAGES THEN [ret |-> TRUE, checked |-> Put(ch, pkg, TRUE)]
    ELSE [ret |-> pkg \in imp, checked |-> Put(ch, pkg, pkg \in imp)]

is_available(ch, imp, pkg) ==
    IF pkg \in DOMAIN ch THEN [ret |-> ch[pkg], checked |-> ch]
    ELSE IF pkg \in BUILTIN_PACKAGES THEN [ret |-> TRUE, checked |-> Put(ch, pkg, TRUE)]
    ELSE [ret |-> pkg \in imp, checked |-> Put(ch, pkg, pkg \in imp)]

install_package(ch, imp, pkg, pipOk) ==
    IF pipOk THEN [ret |-> TRUE, checked |-> Pop(ch, pkg), importable |-> imp \cup {pkg}]
    ELSE [ret |-> FALSE, checked |-> ch, importable |-> imp]

\* check_plugin_dependencies followed by ensure_packages(missing), for the
\* requires tuple of one manifest; ret is TRUE when no package failed.
RECURSIVE EnsureRequires(_, _, _, _)
EnsureRequires(ch, imp, pkgs, pipOk) ==
    IF pkgs = <<>> THEN [ret |-> TRUE, checked |-> ch, importable |-> imp]
    ELSE LET a == is_available(ch, imp, Head(pkgs)) IN
         IF a.ret THEN EnsureRequires(a.checked, imp, Tail(pkgs), pipOk)
         ELSE LET i == install_package(a.checked, imp, Head(pkgs), pipOk)
                  r == EnsureRequires(i.checked, i.importable, Tail(pkgs), pipOk)
              IN [r EXCEPT !.ret = r.ret /\ i.ret]

(***************************************************************************)
(* base_component.py: properties, state bag, serialisation.                *)
(***************************************************************************)
Property_p == [key |-> "p", type |-> "INT", default |-> IntV(1),
               min_value |-> IntV(0), max_value |-> IntV(2)]
get_properties(cls) == <<Property_p>>

\* Python numbers: the value in halves, comparison (false with NaN), and
\* max(a, b) / min(a, b), which return a unless b is greater / smaller.
Halves(v) == IF v.kind = "int" THEN 2 * v.n ELSE v.n
Ext(v) == IF v.kind = "inf" THEN v.n * 1000000 ELSE Halves(v)
Gt(a, b) == a.kind # "nan" /\ b.kind # "nan" /\ Ext(a) > Ext(b)
PyMax(a, b) == IF Gt(b, a) THEN b ELSE a
PyMin(a, b) == IF Gt(a, b) THEN b ELSE a

\* The outcome of a conversion or of validate: a value, or the exception.
Returned(value) == [ok |-> TRUE, value |-> value, exc |-> "none"]
Raised(exc, value) == [ok |-> FALSE, value |-> value, exc |-> exc]

\* int(v): truncation toward zero; ValueError for NaN and for text that is
\* not a number, OverflowError for an infinity.
py_int(v) ==
    IF v.kind = "int" THEN Returned(v)
    ELSE IF v.kind = "float"
    THEN Returned(IntV(IF v.n >= 0 THEN v.n \div 2 ELSE 0 - ((0 - v.n) \div 2)))
    ELSE IF v.kind = "inf" THEN Raised("OverflowError", v)
    ELSE Raised("ValueError", v)

\* float(v)
py_float(v) ==
    IF v.kind = "int" THEN Returned(FloatV(2 * v.n))
    ELSE IF v.kind \in {"float", "inf", "nan"} THEN Returned(v)
    ELSE Raised("ValueError", v)

\* Property.validate, lines 66-88 (None, INT, FLOAT and RANGE): ok = FALSE is
\* the exception raised.
validate(prop, value) ==
    IF value.kind = "none" THEN Returned(prop.default)
    ELSE IF prop.type = "INT"
    THEN LET c == py_int(value) IN
         IF ~c.ok THEN c
         ELSE LET lo == IF prop.min_value.kind = "none" THEN c.value
                        ELSE PyMax(py_int(prop.min_value).value, c.value)
                  hi == IF prop.max_value.kind = "none" THEN lo
                        ELSE PyMin(py_int(prop.max_value).value, lo)
              IN Returned(hi)
    ELSE LET c == py_float(value) IN
         IF ~c.ok THEN c
         ELSE LET lo == IF prop.min_value.kind = "none" THEN c.value
                        ELSE PyMax(prop.min_value, c.value)
                  hi == IF prop.max_value.kind = "none" THEN lo
                        ELSE PyMin(prop.max_value, lo)
              IN Returned(hi)

RECURSIVE InitDefaults(_, _)
InitDefaults(props, defs) ==
    IF defs = <<>> THEN props
    ELSE InitDefaults(IF Head(defs).key \in DOMAIN props THEN props
                      ELSE Put(props, Head(defs).key, Head(defs).default), Tail(defs))

\* Mutant: no default is allocated.
_init_defaults_none(cls) == EmptyMap

_init_defaults(cls) == InitDefaults(EmptyMap, get_properties(cls))

on_init_state(cls) == IF cls.init_sets THEN Put(EmptyMap, "s", IntV(0)) ELSE EmptyMap

Instance(cls, g, props, state) ==
    [cls |-> cls, gen |-> g, props |-> props, state |-> state]

Blob(mid, hasP, props, hasS, state) ==
    [manifest_id |-> mid, has_properties |-> hasP, properties |-> props,
     has_state |-> hasS, state |-> state]

serialise(i) == Blob(i.cls.man, TRUE, i.props, TRUE, i.state)

\* Mutant: the saved properties and state are not applied.
deserialise_nothing(i, data) == i

deserialise(i, data) ==
    [i EXCEPT !.props = IF data.has_properties THEN Update(i.props, data.properties) ELSE i.props,
              !.state = IF data.has_state THEN Update(i.state, data.state) ELSE i.state]

HookCall(hook, iid, raised) ==
    [hook |-> hook, instance_id |-> iid, raised |-> raised, issued |-> 0, audio |-> ""]

(***************************************************************************)
(* registry.py: instance management.                                       *)
(***************************************************************************)
NoExc == [kind |-> "none", message |-> <<>>]
Exc(kind, message) == [kind |-> kind, message |-> message]
NoneId == "None"
KnownErrors == {"ValueError", "RuntimeError", "ImportError"}

\* rs = [instances, checked, importable, uuid_count, hooks]
create_core(plg, rs, manifest_id, instance_id, pipOk) ==
    LET fail(e) == [exc |-> e, rs |-> rs, instance_id |-> instance_id] IN
    IF manifest_id \notin DOMAIN plg
    THEN fail(Exc("ValueError", <<"Plugin '", manifest_id, "' not found">>))
    ELSE
    LET plugin == plg[manifest_id] IN
    IF plugin.load_error # NoError
    THEN fail(Exc("RuntimeError", <<"Plugin '", manifest_id, "' failed to load: ", plugin.load_error>>))
    ELSE IF plugin.component_class = NoClass
    THEN fail(Exc("RuntimeError", <<"Plugin '", manifest_id, "' has no valid component class">>))
    ELSE
    LET cls == plugin.component_class
        deps == EnsureRequires(rs.checked, rs.importable, cls.requires, pipOk)
        rs1 == [rs EXCEPT !.checked = deps.checked, !.importable = deps.importable]
        wrap(e) == IF e \in KnownErrors THEN Exc(e, <<e>>)
                   ELSE Exc("RuntimeError", <<"Error initializing '", manifest_id, "': ", e>>)
    IN
    IF ~deps.ret
    THEN [exc |-> Exc("ImportError", <<"Failed to install dependencies: ", "numpy">>),
          rs |-> rs1, instance_id |-> instance_id]
    ELSE IF cls.init = "ctor"
    THEN [exc |-> wrap(cls.init_exc),
          rs |-> [rs1 EXCEPT !.hooks = Append(@, HookCall("__init__", instance_id, cls.init_exc))],
          instance_id |-> instance_id]
    ELSE IF cls.init = "on_init"
    THEN [exc |-> wrap(cls.init_exc),
          rs |-> [rs1 EXCEPT !.hooks = @ \o <<HookCall("__init__", instance_id, NoRaise),
                                                HookCall("_init_defaults", instance_id, NoRaise),
                                                HookCall("on_init", instance_id, cls.init_exc)>>],
          instance_id |-> instance_id]
    ELSE
    LET iid == IF instance_id = NoneId THEN "uuid" \o ToString(rs.uuid_count + 1) ELSE instance_id
        uc == IF instance_id = NoneId THEN rs.uuid_count + 1 ELSE rs.uuid_count
        new == Instance(cls, plugin.gen, _init_defaults(cls), on_init_state(cls))
    IN [exc |-> NoExc,
        rs |-> [rs1 EXCEPT !.instances = Put(@, iid, new),
                           !.uuid_count = uc,
                           !.hooks = @ \o <<HookCall("__init__", instance_id, NoRaise),
                                             HookCall("_init_defaults", instance_id, NoRaise),
                                             HookCall("on_init", instance_id, NoRaise)>>],
        instance_id |-> iid]

\* Mutant: the instance is put in the table before on_init is called, so an
\* on_init that raises leaves it there.
create_registers_first(plg, rs, manifest_id, instance_id, pipOk) ==
    LET c == create_core(plg, rs, manifest_id, instance_id, pipOk) IN
    IF /\ c.exc # NoExc
       /\ instance_id # NoneId
       /\ \E j \in 1..Len(c.rs.hooks) : c.rs.hooks[j].hook = "on_init"
    THEN [c EXCEPT !.rs.instances =
             Put(@, instance_id,
                 Instance(plg[manifest_id].component_class, plg[manifest_id].gen,
                          _init_defaults(plg[manifest_id].component_class), EmptyMap))]
    ELSE c

create(plg, rs, manifest_id, instance_id, pipOk) ==
    create_core(plg, rs, manifest_id, instance_id, pipOk)

get_instance(inst, instance_id) == instance_id \in DOMAIN inst

\* Mutant: the teardown hook runs but the instance stays in the table.
destroy_instance_keeps(inst, hk, instance_id, raises) ==
    IF instance_id \in DOMAIN inst
    THEN [instances |-> inst,
          hooks |-> Append(hk, HookCall("on_destroy", instance_id,
                                        IF instance_id \in raises THEN "Exception" ELSE NoRaise))]
    ELSE [instances |-> inst, hooks |-> hk]

\* raises: the ids whose on_destroy raises in this call.
destroy_instance(inst, hk, instance_id, raises) ==
    IF instance_id \in DOMAIN inst
    THEN [instances |-> Pop(inst, instance_id),
          hooks |-> Append(hk, HookCall("on_destroy", instance_id,
                                        IF instance_id \in raises THEN "Exception" ELSE NoRaise))]
    ELSE [instances |-> inst, hooks |-> hk]

\* Mutant: an on_destroy that raises ends the loop over the instances.
RECURSIVE DestroyEach_StopsOnRaise(_, _, _, _)
DestroyEach_StopsOnRaise(inst, hk, ids, raises) ==
    IF ids = <<>> THEN [instances |-> inst, hooks |-> hk]
    ELSE LET r == destroy_instance(inst, hk, Head(ids), raises)
         IN IF Head(ids) \in raises THEN r
            ELSE DestroyEach_StopsOnRaise(r.instances, r.hooks, Tail(ids), raises)

RECURSIVE DestroyEach(_, _, _, _)
DestroyEach(inst, hk, ids, raises) ==
    IF ids = <<>> THEN [instances |-> inst, hooks |-> hk]
    ELSE LET r == destroy_instance(inst, hk, Head(ids), raises)
         IN DestroyEach(r.instances, r.hooks, Tail(ids), raises)

\* ids: list(self._instances.keys()) in the dict's insertion order.
destroy_all(inst, hk, ids, raises) == DestroyEach(inst, hk, ids, raises)

serialise_instances(inst) == [iid \in DOMAIN inst |-> serialise(inst[iid])]

\* data: the items of the dict, in order, as <<instance id, blob>> pairs.
RECURSIVE deserialise_instances(_, _, _, _)
deserialise_instances(plg, rs, data, pipOk) ==
    IF data = <<>> THEN [exc |-> NoExc, rs |-> rs]
    ELSE LET iid == Head(data)[1]
             inst_data == Head(data)[2]
         IN IF inst_data.manifest_id = ""
            THEN deserialise_instances(plg, rs, Tail(data), pipOk)
            ELSE LET c == create(plg, rs, inst_data.manifest_id, iid, pipOk) IN
                 IF c.exc # NoExc THEN [exc |-> c.exc, rs |-> c.rs]
                 ELSE deserialise_instances(
                        plg,
                        [c.rs EXCEPT !.instances[c.instance_id] = deserialise(@, inst_data)],
                        Tail(data), pipOk)

(***************************************************************************)
(* shared_memory.py: the region written by the host and its reader.  A     *)
(* region has a size in bytes and a magic number; its header holds the     *)
(* frame counter and the counts the reader trusts, its data area the       *)
(* float32 slots from offset 236 on.  A linear magnitude is 0, negative,   *)
(* NaN or a power of ten 10^exp.                                           *)
(***************************************************************************)
SHM_MAGIC == 1297632577
SHM_MAX_CHANNELS == 8
SHM_CHANNEL_STRIDE == 20
SHM_CHANNELS_OFFSET == 76
SHM_SPECTRUM_OFFSET == SHM_CHANNELS_OFFSET + SHM_MAX_CHANNELS * SHM_CHANNEL_STRIDE

Lin(sign, exp) == [sign |-> sign, exp |-> exp]
ZeroLin == Lin("zero", 0)
LinValues == {ZeroLin, Lin("neg", 0), Lin("nan", 0)}
             \cup {Lin("pos", e) : e \in {0 - 12, 0 - 9, 0 - 6, 0 - 5, 0 - 1, 0, 1}}

Region(exists, magic, size) == [exists |-> exists, magic |-> magic, size |-> size]
Header(frame, num_channels, fft_size, waveform_size, data) ==
    [frame |-> frame, num_channels |-> num_channels, fft_size |-> fft_size,
     waveform_size |-> waveform_size, data |-> data]
InitialHeader == Header(0, 0, 0, 0, <<>>)

\* The float32 slot k (from 1) of the data area; the host zero-fills the
\* part it has not written.
Slot(h, k) == IF k \in 1..Len(h.data) THEN h.data[k] ELSE ZeroLin

\* struct.unpack_from(fmt, buf, off) raises when off + size exceeds len(buf).
Readable(size, off, n) == off + n <= size

\* Mutant: the magic number is not looked at.
open_any_magic(region) ==
    /\ region.exists
    /\ region.size > 0
    /\ Readable(region.size, 12, 4)

\* open(): TRUE when the region can be mapped, the magic at offset 0 is
\* SHM_MAGIC and the version and size fields (offsets 4 and 12) can be read.
open(region) ==
    /\ region.exists
    /\ region.size > 0
    /\ Readable(region.size, 0, 4)
    /\ region.magic = SHM_MAGIC
    /\ Readable(region.size, 4, 4)
    /\ Readable(region.size, 12, 4)

\* Mutant: the counter of the last read is not looked at.
has_new_frame_any(is_open, last_frame, h) == is_open /\ h.frame # 0

\* has_new_frame()
has_new_frame(is_open, last_frame, h) == is_open /\ h.frame # last_frame

NoData == [none |-> TRUE]

\* Mutant: the channel count of the header is used as it is.
ch_count_unbounded(num_channels) == num_channels

\* Line 191.
ch_count(num_channels) == Min2(num_channels, SHM_MAX_CHANNELS)

\* Lines 211-215: 20 * log10(v) when v > 1e-10, else -100.0.
spectrum_db(v) ==
    IF v.sign = "pos" /\ v.exp > 0 - 10 THEN 20 * v.exp ELSE 0 - 100

\* read_raw(): [data, last_frame].  data is NoData when the reader is not
\* open or an unpack fails; _last_frame is assigned as soon as the frame
\* counter has been read.  A channel record keeps the offset it was read at.
read_raw_core(is_open, size, last_frame, h) ==
    IF ~is_open \/ ~Readable(size, 8, 4)
    THEN [data |-> NoData, last_frame |-> last_frame]
    ELSE
    LET n == ch_count(h.num_channels)
        channel_off(i) == SHM_CHANNELS_OFFSET + i * SHM_CHANNEL_STRIDE
        spectrum_count == (h.fft_size \div 2) + 1
        spectrum_offset == SHM_SPECTRUM_OFFSET
        waveform_offset == spectrum_offset + spectrum_count * 4
        fits == /\ Readable(size, 72, 4)
                /\ \A i \in 0..(n - 1) : Readable(size, channel_off(i), SHM_CHANNEL_STRIDE)
                /\ Readable(size, spectrum_offset, 4 * spectrum_count)
                /\ Readable(size, waveform_offset, 4 * h.waveform_size)
    IN IF ~fits THEN [data |-> NoData, last_frame |-> h.frame]
       ELSE [data |-> [num_channels |-> h.num_channels,
                       channels |-> [i \in 1..n |-> [off |-> channel_off(i - 1)]],
                       spectrum |-> [k \in 1..spectrum_count |-> spectrum_db(Slot(h, k))],
                       spectrum_linear |-> [k \in 1..spectrum_count |-> Slot(h, k)],
                       fft_size |-> h.fft_size,
                       waveform |-> [k \in 1..h.waveform_size |-> Slot(h, spectrum_count + k)]],
             last_frame |-> h.frame]

\* Mutant: a read that finds the frame counter of the previous read gives up.
read_raw_waits(is_open, size, last_frame, h) ==
    IF is_open /\ Readable(size, 8, 4) /\ h.frame = last_frame
    THEN [data |-> NoData, last_frame |-> last_frame]
    ELSE read_raw_core(is_open, size, last_frame, h)

read_raw(is_open, size, last_frame, h) == read_raw_core(is_open, size, last_frame, h)

(***************************************************************************)
(* render_context.py and the error overlay of bridge.py.  A command keeps  *)
(* its kind, its text and the width and height it was given.               *)
(***************************************************************************)
Cmd(cmd, text, w, h) == [cmd |-> cmd, text |-> text, w |-> w, h |-> h]

\* h is a multiple of 10, so h * 0.1 is h \div 10.
_render_error_overlay(w, h, error_msg) ==
    LET icon_y == Min2(20, h \div 10)
        msg_y == icon_y + 30
        available_h == h - msg_y - 10
    IN <<Cmd("clear", "", 0, 0),
         Cmd("stroke_rect", "", w - 3, h - 3),
         Cmd("draw_text", "ERROR", w, 24)>>
       \o (IF available_h > 0 THEN <<Cmd("draw_text", error_msg, w - 20, available_h)>> ELSE <<>>)
       \o (IF h > 100 THEN <<Cmd("draw_text", "Fix the script and reload", w, 20)>> ELSE <<>>)

\* Mutant: the overlay is drawn into the buffer the hook was writing.
ErrorContext_Reused(partial) == partial

\* ctx = RenderContext(width, height) in the except branch: a new, empty buffer.
ErrorContext(partial) == <<>>

(***************************************************************************)
(* bridge.py: responses and handlers.                                      *)
(***************************************************************************)
Resp(type, message) ==
    [type |-> type, message |-> message, instance_id |-> "", manifest_id |-> "",
     commands |-> <<>>, has_error |-> FALSE, data |-> EmptyMap, count |-> 0]
NoResp == Resp("", <<>>)
ErrorResp(message) == Resp("error", message)
NotFound(instance_id) == ErrorResp(<<"Instance not found: ", instance_id>>)

Req(type, manifest_id, instance_id) ==
    [type |-> type, manifest_id |-> manifest_id, instance_id |-> instance_id,
     width |-> 0, height |-> 0, key |-> "", value |-> NoneV, data |-> <<>>, audio |-> ""]
NoReq == Req("", "", "")

\* Mutant: a render that succeeds leaves the error record alone.
RenderErrors_NoClear(errs, instance_id, raised) ==
    IF raised = NoRaise THEN errs ELSE Put(errs, instance_id, raised)

\* Lines 212-224: what a render does to the per-instance error table.
RenderErrors(errs, instance_id, raised) ==
    IF raised = NoRaise THEN Pop(errs, instance_id) ELSE Put(errs, instance_id, raised)

\* Mutant: the error flag is never raised.
RenderResponse_NoFlag(errs, instance_id, commands) ==
    [Resp("render_commands", <<>>) EXCEPT !.instance_id = instance_id,
                                          !.commands = commands]

\* Lines 226-231: the render response.
RenderResponse(errs, instance_id, commands) ==
    [Resp("render_commands", <<>>) EXCEPT !.instance_id = instance_id,
                                          !.commands = commands,
                                          !.has_error = instance_id \in DOMAIN errs]

\* Lines 210-224: the command buffer handed back after the hook has run.
RenderCommands(w, h, draws, raised) ==
    IF raised = NoRaise THEN draws
    ELSE ErrorContext(draws) \o _render_error_overlay(w, h, raised)

\* Mutant: shutdown leaves the loop variable set.
RunningAfter_IgnoresShutdown(msg_type, r) == r

\* Mutant: a line that is not JSON ends the loop.
RunningAfter_StopsOnBadLine(msg_type, r) ==
    IF msg_type \in {"shutdown", "<invalid-json>"} THEN FALSE ELSE r

\* Lines 93-117: the loop variable after one dispatched message.
RunningAfter(msg_type, r) == IF msg_type = "shutdown" THEN FALSE ELSE r

\* Mutant: shutdown hands back no response.
_handle_shutdown_no_response == NoResp

_handle_shutdown_response == [Resp("ok", <<"Shutting down">>) EXCEPT !.count = 0]

\* Line 108: "if response:" -- a handler result is sent when it is not empty.
Sends(response) == response # NoResp

(***************************************************************************)
(* Inputs of the model: what the host may send and what component code and *)
(* the environment may do.                                                 *)
(***************************************************************************)
InstanceIds == {"i1"}
GeneratedIds(n) == {"uuid" \o ToString(k) : k \in 1..n}
IdOrder(n) == <<"i1", "i2">> \o [k \in 1..n |-> "uuid" \o ToString(k)]
ErrTexts == {"e1", "e2"}
RequestIds == InstanceIds \cup GeneratedIds(uuid_count) \cup DOMAIN instances
Heights == {40, 50, 200}
Width == 300
\* What one call of a render hook may do: the drawing calls it issues, whether
\* it writes its state bag, and the exception it raises, if any.
FillRect == Cmd("fill_rect", "", 10, 10)
Outcome(draws, sets, raised) == [draws |-> draws, sets |-> sets, raised |-> raised]
RenderOutcomes ==
    {Outcome(<<>>, FALSE, NoRaise), Outcome(<<FillRect>>, FALSE, NoRaise),
     Outcome(<<FillRect, Cmd("clear", "", 0, 0)>>, TRUE, NoRaise),
     Outcome(<<>>, FALSE, "e1"), Outcome(<<FillRect>>, FALSE, "e1"),
     Outcome(<<FillRect, FillRect>>, TRUE, "e2")}
SetInputs == {<<"p", IntV(3)>>, <<"p", StrV>>, <<"p", NoneV>>, <<"p", InfV(1)>>, <<"q", IntV(3)>>}
RequestManifestIds == ManifestIds \cup {"error.f1", "com.zzz"}

\* json.dumps followed by json.loads on a value: numbers, strings and null
\* come back as they were.
json_value(v) ==
    CASE v.kind = "int" -> IntV(v.n)
      [] v.kind = "str" -> StrV
      [] OTHER -> NoneV
json_map(m) == [k \in DOMAIN m |-> json_value(m[k])]
json_blob(b) == [b EXCEPT !.properties = json_map(@), !.state = json_map(@)]

\* The items of a saved dict as a list of pairs.
Items(data, order) ==
    LET ks == SelectSeq(order, LAMBDA k : k \in DOMAIN data)
    IN [j \in 1..Len(ks) |-> <<ks[j], data[ks[j]]>>]

CraftedLoads ==
    {<< <<"i1", Blob("com.zzz", TRUE, EmptyMap, TRUE, EmptyMap)>>,
        <<"i2", Blob("com.a", TRUE, Put(EmptyMap, "p", IntV(2)), TRUE, Put(EmptyMap, "s", IntV(1)))>> >>,
     << <<"i1", Blob("", TRUE, EmptyMap, TRUE, EmptyMap)>>,
        <<"i2", Blob("com.a", FALSE, EmptyMap, FALSE, EmptyMap)>> >>}

LoadInputs(inst, n) ==
    {Items([i \in DOMAIN inst |-> json_blob(serialise_instances(inst)[i])], IdOrder(n))}
    \cup CraftedLoads

Registry == [instances |-> instances, checked |-> checked, importable |-> importable,
             uuid_count |-> uuid_count, hooks |-> <<>>]

SetRegistry(rs) ==
    /\ instances' = rs.instances
    /\ checked' = rs.checked
    /\ importable' = rs.importable
    /\ uuid_count' = rs.uuid_count
    /\ hooks' = rs.hooks

(***************************************************************************)
(* BridgeProtocol.run: one iteration of the loop.                          *)
(***************************************************************************)
\* _send: json.dumps and the write may fail; the failure is logged and the
\* message is dropped.
_send(ok) ==
    /\ nSent' = nSent + 1
    /\ written' = ok

Iteration(r, response) ==
    /\ nRead' = nRead + 1
    /\ req' = r
    /\ resp' = response
    /\ IF Sends(response)
       THEN \E ok \in BOOLEAN : _send(ok)
       ELSE nSent' = nSent /\ written' = FALSE
    /\ running' = RunningAfter(r.type, running)
    /\ pc' = IF running' THEN "Running" ELSE "Stopped"

CanRead == pc = "Running" /\ nRead + nEdits < MaxSteps

_handle_scan ==
    /\ CanRead
    /\ gen' = gen + 1
    /\ plugins' = scan(plugins, disk, gen')
    /\ Iteration(Req("scan", "", ""),
                 [Resp("scan_result", <<>>) EXCEPT !.count = Cardinality(DOMAIN plugins')])
    /\ old_plugins' = EmptyMap
    /\ hooks' = <<>>
    /\ UNCHANGED <<shm_region, regionVars, unitVars, ctxVars, _last_frame, shm_available, shm_open, instances, instance_errors, disk, checked,
                   importable, uuid_count, destroyed, nEdits>>

get_valid_plugins(plg) == {m \in DOMAIN plg : plg[m].load_error = NoError /\ plg[m].enabled}

_handle_list ==
    /\ CanRead
    /\ Iteration(Req("list", "", ""),
                 [Resp("manifest_list", <<>>) EXCEPT !.count = Cardinality(get_valid_plugins(plugins))])
    /\ old_plugins' = EmptyMap
    /\ hooks' = <<>>
    /\ UNCHANGED <<shm_region, regionVars, unitVars, ctxVars, _last_frame, shm_available, shm_open, plugins, instances, instance_errors, disk, gen,
                   checked, importable, uuid_count, destroyed, nEdits>>

_handle_create ==
    /\ CanRead
    /\ \E manifest_id \in RequestManifestIds, instance_id \in InstanceIds \cup {NoneId},
          pipOk \in BOOLEAN :
         LET c == create(plugins, Registry, manifest_id, instance_id, pipOk) IN
         /\ SetRegistry(c.rs)
         /\ Iteration(Req("create", manifest_id, instance_id),
                      IF c.exc # NoExc THEN ErrorResp(c.exc.message)
                      ELSE [Resp("created", <<>>) EXCEPT !.instance_id = instance_id,
                                                         !.manifest_id = manifest_id,
                                                         !.count = Len(get_properties(plugins[manifest_id].component_class))])
         /\ destroyed' = IF c.exc = NoExc THEN destroyed \ {c.instance_id} ELSE destroyed
    /\ old_plugins' = EmptyMap
    /\ UNCHANGED <<shm_region, regionVars, unitVars, ctxVars, _last_frame, shm_available, shm_open, plugins, instance_errors, disk, gen, nEdits>>

\* The "audio" field of a render request: "object" is a JSON object or no
\* field at all (msg.get("audio", {})), "bad" any other JSON value.
Payloads == {"object", "bad"}

\* Mutant: a failed read is not replaced by the payload of the request.
AudioSource_NoFallback(avail, is_open, shm_read, payload) ==
    IF avail /\ is_open THEN (IF shm_read THEN "shm" ELSE "raise")
    ELSE IF payload = "bad" THEN "raise" ELSE "json"

\* Lines 200-208: where the audio snapshot of a render comes from; "raise"
\* is _build_audio_data failing on a payload that is not a dict.
AudioSource(avail, is_open, shm_read, payload) ==
    IF avail /\ is_open /\ shm_read THEN "shm"
    ELSE IF payload = "bad" THEN "raise" ELSE "json"

\* The header the reader finds in the region at the moment of a render: one
\* the host has completed, or one caught in the middle of an update whose
\* fft_size does not fit the region.
CompleteHeader == Header(1, 2, 2, 1, <<Lin("pos", 0), Lin("pos", 0 - 9)>>)
TornHeader == Header(1, 2, 1000000, 1, <<Lin("pos", 0), Lin("pos", 0 - 9)>>)
RenderHeaders == {CompleteHeader, TornHeader}

_handle_render ==
    /\ CanRead
    /\ \E instance_id \in RequestIds, height \in Heights,
          payload \in Payloads,
          h \in IF shm_available /\ shm_open THEN RenderHeaders ELSE {InitialHeader} :
         LET r == [Req("render", "", instance_id) EXCEPT !.width = Width, !.height = height,
                                                             !.audio = payload]
             shm_read == read_raw(shm_open, shm_region.size, _last_frame, h)
             src == AudioSource(shm_available, shm_open, shm_read.data # NoData, payload)
         IN
         IF ~get_instance(instances, instance_id)
         THEN /\ Iteration(r, NotFound(instance_id))
              /\ hooks' = <<>>
              /\ UNCHANGED <<instances, instance_errors, _last_frame>>
         ELSE IF src = "raise"
         THEN /\ Iteration(r, ErrorResp(<<"AttributeError">>))
              /\ hooks' = <<>>
              /\ _last_frame' = IF shm_available /\ shm_open THEN shm_read.last_frame
                                 ELSE _last_frame
              /\ UNCHANGED <<instances, instance_errors>>
         ELSE \E o \in RenderOutcomes :
              LET draws == o.draws
                  sets == o.sets
                  raised == o.raised
              IN
              /\ _last_frame' = IF shm_available /\ shm_open THEN shm_read.last_frame
                                 ELSE _last_frame
              /\ hooks' = <<[HookCall("on_render", instance_id, raised)
                               EXCEPT !.issued = Len(draws), !.audio = src]>>
              /\ instances' = IF sets
                              THEN [instances EXCEPT ![instance_id].state = Put(@, "s", IntV(1))]
                              ELSE instances
              /\ instance_errors' = RenderErrors(instance_errors, instance_id, raised)
              /\ Iteration(r, RenderResponse(instance_errors', instance_id,
                                             RenderCommands(Width, height, draws, raised)))
    /\ old_plugins' = EmptyMap
    /\ UNCHANGED <<shm_region, regionVars, unitVars, ctxVars, shm_available, shm_open, plugins, disk, gen, checked, importable,
                   uuid_count, destroyed, nEdits>>

\* BaseComponent.set_property: the instance with the value stored under key.
\* Only ValueError and TypeError of validate are caught (line 110); any other
\* exception leaves set_property before the value is stored (raised).
set_property(i, key, value) ==
    LET defs == {get_properties(i.cls)[j] : j \in 1..Len(get_properties(i.cls))}
        r == IF key \in {d.key : d \in defs}
             THEN validate(CHOOSE d \in defs : d.key = key, value)
             ELSE Returned(value)
    IN IF r.ok THEN [raised |-> NoRaise, instance |-> [i EXCEPT !.props = Put(@, key, r.value)]]
       ELSE IF r.exc \in {"ValueError", "TypeError"}
       THEN [raised |-> NoRaise, instance |-> [i EXCEPT !.props = Put(@, key, value)]]
       ELSE [raised |-> r.exc, instance |-> i]

\* A handler that forwards to one hook of a live instance; an exception of
\* the hook leaves the handler and is answered by run's generic except.
HookResponse(raised) == IF raised = NoRaise THEN Resp("ok", <<>>) ELSE ErrorResp(<<raised>>)

_handle_set_property ==
    /\ CanRead
    /\ \E instance_id \in RequestIds, kv \in SetInputs,
          raised \in {NoRaise, "e1"} :
         LET key == kv[1]
             value == kv[2]
             r == [Req("set_property", "", instance_id) EXCEPT !.key = key, !.value = value]
         IN
         IF ~get_instance(instances, instance_id)
         THEN /\ Iteration(r, NotFound(instance_id))
              /\ hooks' = <<>>
              /\ UNCHANGED instances
         ELSE LET s == set_property(instances[instance_id], key, value) IN
              IF s.raised # NoRaise
              THEN /\ Iteration(r, ErrorResp(<<s.raised>>))
                   /\ hooks' = <<>>
                   /\ UNCHANGED instances
              ELSE /\ instances' = [instances EXCEPT ![instance_id] = s.instance]
                   /\ hooks' = <<HookCall("on_property_changed", instance_id, raised)>>
                   /\ Iteration(r, HookResponse(raised))
    /\ old_plugins' = EmptyMap
    /\ UNCHANGED <<shm_region, regionVars, unitVars, ctxVars, _last_frame, shm_available, shm_open, plugins, instance_errors, disk, gen, checked,
                   importable, uuid_count, destroyed, nEdits>>

_handle_resize ==
    /\ CanRead
    /\ \E instance_id \in RequestIds, raised \in {NoRaise, "e1"} :
         IF ~get_instance(instances, instance_id)
         THEN /\ Iteration(Req("resize", "", instance_id), NotFound(instance_id))
              /\ hooks' = <<>>
         ELSE /\ hooks' = <<HookCall("on_resize", instance_id, raised)>>
              /\ Iteration(Req("resize", "", instance_id), HookResponse(raised))
    /\ old_plugins' = EmptyMap
    /\ UNCHANGED <<shm_region, regionVars, unitVars, ctxVars, _last_frame, shm_available, shm_open, plugins, instances, instance_errors, disk, gen,
                   checked, importable, uuid_count, destroyed, nEdits>>

\* event "down" reaches on_mouse_down; an event that is none of down, move,
\* up reaches no hook.
_handle_mouse_event ==
    /\ CanRead
    /\ \E instance_id \in RequestIds, event \in {"down", "wheel"}, raised \in {NoRaise, "e1"} :
         LET r == [Req("mouse_event", "", instance_id) EXCEPT !.key = event] IN
         IF ~get_instance(instances, instance_id)
         THEN /\ Iteration(r, NotFound(instance_id))
              /\ hooks' = <<>>
         ELSE IF event = "down"
         THEN /\ hooks' = <<HookCall("on_mouse_down", instance_id, raised)>>
              /\ Iteration(r, HookResponse(raised))
         ELSE /\ hooks' = <<>>
              /\ Iteration(r, Resp("ok", <<>>))
    /\ old_plugins' = EmptyMap
    /\ UNCHANGED <<shm_region, regionVars, unitVars, ctxVars, _last_frame, shm_available, shm_open, plugins, instances, instance_errors, disk, gen,
                   checked, importable, uuid_count, destroyed, nEdits>>

_handle_destroy ==
    /\ CanRead
    /\ \E instance_id \in RequestIds, raises \in BOOLEAN :
         LET d == destroy_instance(instances, <<>>, instance_id,
                                   IF raises THEN {instance_id} ELSE {}) IN
         /\ instances' = d.instances
         /\ hooks' = d.hooks
         /\ destroyed' = destroyed \cup {instance_id}
         /\ Iteration(Req("destroy", "", instance_id), Resp("ok", <<>>))
    /\ old_plugins' = EmptyMap
    /\ UNCHANGED <<shm_region, regionVars, unitVars, ctxVars, _last_frame, shm_available, shm_open, plugins, instance_errors, disk, gen, checked,
                   importable, uuid_count, nEdits>>

_handle_save ==
    /\ CanRead
    /\ Iteration(Req("save", "", ""),
                 [Resp("save_data", <<>>) EXCEPT !.data = serialise_instances(instances)])
    /\ old_plugins' = EmptyMap
    /\ hooks' = <<>>
    /\ UNCHANGED <<shm_region, regionVars, unitVars, ctxVars, _last_frame, shm_available, shm_open, plugins, instances, instance_errors, disk, gen,
                   checked, importable, uuid_count, destroyed, nEdits>>

_handle_load ==
    /\ CanRead
    /\ \E data \in LoadInputs(instances, uuid_count), pipOk \in BOOLEAN :
         LET l == deserialise_instances(plugins, Registry, data, pipOk) IN
         /\ SetRegistry(l.rs)
         /\ destroyed' = destroyed \ {l.rs.hooks[j].instance_id : j \in {k \in 1..Len(l.rs.hooks) :
                                     l.rs.hooks[k].hook = "on_init" /\ l.rs.hooks[k].raised = NoRaise}}
                  /\ Iteration([Req("load", "", "") EXCEPT !.data = data],
                      IF l.exc # NoExc THEN ErrorResp(l.exc.message) ELSE Resp("ok", <<>>))
    /\ old_plugins' = EmptyMap
    /\ UNCHANGED <<shm_region, regionVars, unitVars, ctxVars, _last_frame, shm_available, shm_open, plugins, instance_errors, disk, gen, nEdits>>

_handle_reload ==
    /\ CanRead
    /\ \E manifest_id \in (DOMAIN plugins) \cup {"com.zzz"} :
         LET r == reload_plugin(plugins, instances, disk, manifest_id, gen + 1) IN
         /\ plugins' = r.plugins
         /\ instances' = r.instances
         /\ old_plugins' = r.old_plugins
         /\ Iteration(Req("reload", manifest_id, ""),
                      IF r.ret THEN Resp("ok", <<"Reloaded ", manifest_id>>)
                      ELSE ErrorResp(<<"Reload failed for ", manifest_id>>))
    /\ gen' = gen + 1
    /\ hooks' = <<>>
    /\ UNCHANGED <<shm_region, regionVars, unitVars, ctxVars, _last_frame, shm_available, shm_open, instance_errors, disk, checked, importable,
                   uuid_count, destroyed, nEdits>>

_handle_shutdown ==
    /\ CanRead
    /\ \E raises \in SUBSET (DOMAIN instances) :
         LET d == destroy_all(instances, <<>>,
                              SelectSeq(IdOrder(uuid_count), LAMBDA k : k \in DOMAIN instances),
                              raises) IN
         /\ instances' = d.instances
         /\ hooks' = d.hooks
    /\ shm_open' = FALSE
    /\ destroyed' = destroyed \cup DOMAIN instances
    /\ Iteration(Req("shutdown", "", ""), _handle_shutdown_response)
    /\ old_plugins' = EmptyMap
    /\ UNCHANGED <<shm_region, regionVars, unitVars, ctxVars, _last_frame, shm_available, plugins, instance_errors, disk, gen, checked, importable,
                   uuid_count, nEdits>>

\* Mutant: a message of unknown type is dropped without an answer.
UnknownTypeIgnored(msg_type) == NoResp

\* Line 106: msg_type is msg.get("type", ""), the empty string when missing.
UnknownTypeResponse(msg_type) == ErrorResp(<<"Unknown message type: ", msg_type>>)

\* A message whose type is no key of the handler table (or is missing).
UnknownMessage ==
    /\ CanRead
    /\ \E t \in {"bogus", "<missing>"} :
         Iteration(Req(t, "", ""), UnknownTypeResponse(IF t = "<missing>" THEN "" ELSE t))
    /\ old_plugins' = EmptyMap
    /\ hooks' = <<>>
    /\ UNCHANGED <<shm_region, regionVars, unitVars, ctxVars, _last_frame, shm_available, shm_open, plugins, instances, instance_errors, disk, gen,
                   checked, importable, uuid_count, destroyed, nEdits>>

\* A line json.loads rejects, or JSON that is no object (msg.get fails).
MalformedLine ==
    /\ CanRead
    /\ \E t \in {"<invalid-json>", "<not-an-object>"} :
         Iteration(Req(t, "", ""),
                   IF t = "<invalid-json>" THEN ErrorResp(<<"Invalid JSON: ", "detail">>)
                   ELSE ErrorResp(<<"AttributeError">>))
    /\ old_plugins' = EmptyMap
    /\ hooks' = <<>>
    /\ UNCHANGED <<shm_region, regionVars, unitVars, ctxVars, _last_frame, shm_available, shm_open, plugins, instances, instance_errors, disk, gen,
                   checked, importable, uuid_count, destroyed, nEdits>>

\* readline returns the empty string: the loop breaks.
EndOfInput ==
    /\ pc = "Running"
    /\ pc' = "Stopped"
    /\ req' = Req("<eof>", "", "")
    /\ resp' = NoResp
    /\ written' = FALSE
    /\ hooks' = <<>>
    /\ old_plugins' = EmptyMap
    /\ UNCHANGED <<shm_region, regionVars, unitVars, ctxVars, _last_frame, running, shm_available, shm_open, plugins, instances, instance_errors, disk,
                   gen, checked, importable, uuid_count, nRead, nSent, destroyed, nEdits>>

\* The plugin author changes unit f1 of the directory, or the directory goes.
\* req, resp, hooks and old_plugins describe the last loop iteration only.
EditDisk ==
    /\ pc = "Running"
    /\ nRead + nEdits < MaxSteps
    /\ nEdits' = nEdits + 1
    /\ disk # NoDir
    /\ \E d \in {NoDir} \cup {[disk EXCEPT !["f1"] = u] : u \in EditContents} :
         /\ d # disk
         /\ disk' = d
    /\ req' = NoReq
    /\ resp' = NoResp
    /\ written' = FALSE
    /\ hooks' = <<>>
    /\ old_plugins' = EmptyMap
    /\ UNCHANGED <<shm_region, regionVars, unitVars, ctxVars, _last_frame, pc, running, shm_available, shm_open, plugins, instances, instance_errors,
                   gen, checked, importable, uuid_count, nRead, nSent, destroyed>>

\* The directory, the shared-memory region (open() succeeds or not) and the
\* importable packages the process starts with.
DiskOf(u1, u2) == [f \in {"f1", "f2"} |-> IF f = "f1" THEN u1 ELSE u2]
\* The unit variables where no unit operation has been applied.
NotCalled == [called |-> FALSE]
IdleUnit ==
    descriptor = NotCalled /\ arg = NotCalled /\ result = NotCalled /\ again = NotCalled
IdleCtx == _commands = <<>> /\ cmds = <<>> /\ ops = <<>>

InitConfigs ==
    {[disk |-> DiskOf(Unit(<<ClsA>>), Unit(<<ClsB>>)), shm |-> Region(TRUE, SHM_MAGIC, 252), importable |-> {}],
     [disk |-> DiskOf(Unit(<<ClsA>>), Unit(<<ClsB>>)), shm |-> Region(TRUE, 0, 252), importable |-> {"numpy"}],
     [disk |-> DiskOf(Broken, Unit(<<ClsA, ClsBasA>>)), shm |-> Region(FALSE, 0, 0), importable |-> {}]}

\* bridge_runner.main: the registry is built and scanned, then run() opens
\* the shared memory and enters the loop.
Init ==
    /\ pc = "Running"
    /\ running = TRUE
    /\ \E c \in InitConfigs :
         /\ shm_region = c.shm
         /\ disk = c.disk
         /\ importable = c.importable
    /\ shm_available = open(shm_region)
    /\ shm_open = shm_available
    /\ _last_frame = 0
    /\ header = InitialHeader
    /\ shm_data = NoData
    /\ frames_read = {}
    /\ IdleUnit
    /\ IdleCtx
    /\ gen = 0
    /\ plugins = scan(EmptyMap, disk, 0)
    /\ instances = EmptyMap
    /\ instance_errors = EmptyMap
    /\ checked = EmptyMap
    /\ uuid_count = 0
    /\ nRead = 0
    /\ nSent = 0
    /\ written = FALSE
    /\ req = NoReq
    /\ resp = NoResp
    /\ hooks = <<>>
    /\ old_plugins = EmptyMap
    /\ destroyed = {}
    /\ nEdits = 0

Next ==
    \/ _handle_scan
    \/ _handle_list
    \/ _handle_create
    \/ _handle_render
    \/ _handle_set_property
    \/ _handle_resize
    \/ _handle_mouse_event
    \/ _handle_destroy
    \/ _handle_save
    \/ _handle_load
    \/ _handle_reload
    \/ _handle_shutdown
    \/ UnknownMessage
    \/ MalformedLine
    \/ EndOfInput
    \/ EditDisk

Spec == Init /\ [][Next]_vars

(***************************************************************************)
(* Properties.                                                             *)
(***************************************************************************)
IsRequest == req.type \notin {"", "<eof>"}
RenderHookRaised ==
    /\ req.type = "render"
    /\ hooks # <<>>
    /\ hooks[1].hook = "on_render"
    /\ hooks[1].raised # NoRaise

\* C1: a render request for a live instance whose render hook raises is
\* answered by a render_commands response (not an error response) with
\* has_error = true and a non-empty command list.
C1_RenderErrorResponse ==
    RenderHookRaised =>
        /\ resp.type = "render_commands"
        /\ resp.has_error
        /\ resp.commands # <<>>

C1_Witness == RenderHookRaised /\ resp.type = "render_commands" /\ Len(resp.commands) = 3

\* C2: the loop is Stopped only after end-of-input or a shutdown request; a
\* hook that raised, a malformed line or an unknown kind leaves it Running.
C2_StopsOnlyOnEofOrShutdown ==
    /\ pc = "Stopped" => req.type \in {"shutdown", "<eof>"}
    /\ (IsRequest /\ req.type # "shutdown") => pc = "Running"

C2_Witness ==
    /\ pc = "Running"
    /\ req.type = "set_property"
    /\ hooks # <<>>
    /\ hooks[1].raised # NoRaise

\* C3 as stated: every request line read is answered by exactly one response
\* that is written before the next line is read.
C3_OneWrittenResponsePerRequest ==
    IsRequest => (nSent = nRead /\ written)

\* C3 as amended: for every request line read exactly one response is built
\* and handed to _send before the next line is read (shutdown, malformed and
\* unknown requests included); the response is written unless serialising or
\* writing it fails, and then it is dropped.
C3_OneSendPerRequest ==
    /\ nSent = nRead
    /\ IsRequest => resp # NoResp

C3_Witness == req.type = "shutdown" /\ nSent = nRead /\ resp.type = "ok" /\ written

\* C4: after a destroy request for id X has been answered, a render request
\* for X is answered "Instance not found: X" and runs no hook, until a create
\* or a load registers X again.
C4_NoRenderAfterDestroy ==
    /\ destroyed \cap DOMAIN instances = {}
    /\ (req.type = "render" /\ req.instance_id \in destroyed) =>
           (resp = NotFound(req.instance_id) /\ hooks = <<>>)

C4_Witness ==
    /\ req.type = "render"
    /\ req.instance_id = "uuid1"
    /\ "uuid1" \in destroyed
    /\ resp.type = "error"

ErrOf(errs, x) == IF x \in DOMAIN errs THEN errs[x] ELSE "<unset>"

C6_OverlayOnly ==
    RenderHookRaised =>
        resp.commands = _render_error_overlay(req.width, req.height, hooks[1].raised)

C6_Witness == RenderHookRaised /\ hooks[1].issued > 0 /\ resp.type = "render_commands"

ReloadUnitFails ==
    /\ req.type = "reload"
    /\ req.manifest_id \in DOMAIN old_plugins
    /\ ~UnitAt(disk, old_plugins[req.manifest_id].module_path).loads

\* C7: reload of a registered id whose unit now fails to load returns false
\* and leaves the record of that id as it was.
C7_FailedReloadReturnsFalse ==
    ReloadUnitFails =>
        /\ resp.type = "error"
        /\ req.manifest_id \in DOMAIN plugins
        /\ plugins[req.manifest_id] = old_plugins[req.manifest_id]

\* C8: a reload, successful or not, leaves the live-instance table as it was.
C8_ReloadKeepsInstances ==
    [][(nRead' = nRead + 1 /\ req'.type = "reload") => instances' = instances]_vars

C8_Witness ==
    /\ req.type = "reload"
    /\ resp.type = "ok"
    /\ \E i \in DOMAIN instances :
          /\ instances[i].cls.man = req.manifest_id
          /\ plugins[req.manifest_id].gen # instances[i].gen

\* C9: reload returns true exactly when the unit loaded without error and the
\* record stored under the id is the one this reload produced.
C9_ReloadResult ==
    req.type = "reload" =>
        (resp.type = "ok" <=>
            /\ req.manifest_id \in DOMAIN old_plugins
            /\ UnitAt(disk, old_plugins[req.manifest_id].module_path).loads
            /\ req.manifest_id \in DOMAIN plugins
            /\ plugins[req.manifest_id].load_error = NoError
            /\ plugins[req.manifest_id].gen = gen)

SamePlugins(plg, inst) ==
    \A i \in DOMAIN inst :
        /\ inst[i].cls.man \in DOMAIN plg
        /\ plg[inst[i].cls.man].component_class = inst[i].cls

RoundTripEqual(a, b) ==
    /\ DOMAIN a = DOMAIN b
    /\ \A i \in DOMAIN a :
          /\ a[i].cls.man = b[i].cls.man
          /\ a[i].props = b[i].props
          /\ a[i].state = b[i].state

Saved == Items(serialise_instances(instances), IdOrder(uuid_count))

C10_Fresh ==
    SamePlugins(plugins, instances) =>
        \A pipOk \in BOOLEAN :
            LET r == deserialise_instances(plugins, [Registry EXCEPT !.instances = EmptyMap],
                                           Saved, pipOk)
            IN r.exc = NoExc /\ RoundTripEqual(instances, r.rs.instances)

C10_Step ==
    (/\ nRead' = nRead + 1
     /\ req'.type = "load"
     /\ req'.data = Saved
     /\ SamePlugins(plugins, instances)) => RoundTripEqual(instances, instances')

\* C10: deserialise_instances applied to the result of serialise_instances,
\* in a registry whose plugin table resolves every instance's manifest id to
\* the instance's class, gives a table with the same ids, manifest ids,
\* property values and state bags, both into an empty table and over the
\* live one.
C10_RoundTrip == []C10_Fresh /\ [][C10_Step]_vars

C10_Witness ==
    /\ req.type = "load"
    /\ resp.type = "ok"
    /\ req.data # <<>>
    /\ req.data = Saved
    /\ \E i \in DOMAIN instances : instances[i].props # _init_defaults(instances[i].cls)

UnknownEntry(j) == req.data[j][2].manifest_id \notin DOMAIN plugins \cup {""}

\* C11: a load whose map holds an entry with a manifest id that resolves to
\* no registered plugin raises no error, creates no instance for that entry
\* and restores every other entry.
C11_UnknownEntrySkipped ==
    (req.type = "load" /\ \E j \in 1..Len(req.data) : UnknownEntry(j)) =>
        /\ resp.type = "ok"
        /\ \A j \in 1..Len(req.data) :
              IF UnknownEntry(j) THEN req.data[j][1] \notin DOMAIN instances
              ELSE (/\ req.data[j][2].manifest_id # ""
                    /\ plugins[req.data[j][2].manifest_id].component_class = ClsA)
                       => req.data[j][1] \in DOMAIN instances

CreateStep == nRead' = nRead + 1 /\ req'.type = "create"

\* What makes a create fail: the id is unknown, the record has a load error
\* or no class, a required package is not importable once the call is over,
\* or the constructor or on_init raises.
CreateMustFail ==
    \/ req'.manifest_id \notin DOMAIN plugins
    \/ LET plugin == plugins[req'.manifest_id] IN
       \/ plugin.load_error # NoError
       \/ plugin.component_class = NoClass
       \/ plugin.component_class.init # "ok"
       \/ \E k \in 1..Len(plugin.component_class.requires) :
             plugin.component_class.requires[k] \notin importable'

\* C12: a create that fails (unknown manifest id, recorded load error,
\* unavailable dependencies, exception in the constructor or in on_init) is
\* answered with an error response and leaves the live-instance table exactly
\* as it was.
C12_FailedCreateLeavesTable ==
    [][CreateStep =>
          /\ resp'.type \in {"error", "created"}
          /\ CreateMustFail => resp'.type = "error"
          /\ resp'.type = "error" => (resp'.message # <<>> /\ instances' = instances)]_vars

C12_Witness ==
    /\ req.type = "create"
    /\ resp.type = "error"
    /\ req.instance_id = "i1"
    /\ "i1" \notin DOMAIN instances
    /\ \E j \in 1..Len(hooks) : hooks[j].hook = "on_init" /\ hooks[j].raised # NoRaise

RaisedInCreate ==
    {hooks[j].raised : j \in {k \in 1..Len(hooks) :
        hooks[k].hook \in {"__init__", "on_init"} /\ hooks[k].raised # NoRaise}}

\* C13: a failed create reports its failure by kind: not found for an unknown
\* manifest id, load error for a record with a load error, dependency error
\* when packages cannot be made available, and any exception of the
\* constructor or of on_init, whatever its type, wrapped as
\* "Error initializing '<id>': <original>".
C13_FailureKinds ==
    (req.type = "create" /\ resp.type = "error") =>
        IF req.manifest_id \notin DOMAIN plugins
        THEN resp.message = <<"Plugin '", req.manifest_id, "' not found">>
        ELSE IF plugins[req.manifest_id].load_error # NoError
        THEN resp.message = <<"Plugin '", req.manifest_id, "' failed to load: ",
                              plugins[req.manifest_id].load_error>>
        ELSE IF RaisedInCreate # {}
        THEN \E e \in RaisedInCreate :
                resp.message = <<"Error initializing '", req.manifest_id, "': ", e>>
        ELSE resp.message = <<"Failed to install dependencies: ", "numpy">>

CreatedId == IF req.instance_id = NoneId THEN "uuid" \o ToString(uuid_count) ELSE req.instance_id
IndexOf(hook) == {j \in 1..Len(hooks) : hooks[j].hook = hook}

\* C14: after a successful create the new instance is in the table under the
\* supplied id, or under a generated id no other instance has when none was
\* supplied; its property map holds the declared default under every declared
\* key; and _init_defaults ran before on_init.
C14_CreatedWithDefaults ==
    /\ DOMAIN instances \subseteq InstanceIds \cup {"i2"} \cup GeneratedIds(uuid_count)
    /\ (req.type = "create" /\ resp.type = "created") =>
          /\ CreatedId \in DOMAIN instances
          /\ req.instance_id = NoneId => uuid_count > 0
          /\ LET i == instances[CreatedId]
                 decl == get_properties(i.cls)
             IN /\ i.cls.man = req.manifest_id
                /\ \A k \in 1..Len(decl) :
                      /\ decl[k].key \in DOMAIN i.props
                      /\ i.props[decl[k].key] = decl[k].default
          /\ \E a \in IndexOf("_init_defaults"), b \in IndexOf("on_init") :
                a < b /\ hooks[b].raised = NoRaise

C14_Witness ==
    /\ req.type = "create"
    /\ resp.type = "created"
    /\ req.instance_id = NoneId
    /\ uuid_count = 2
    /\ DOMAIN instances = {"uuid1", "uuid2"}
    /\ instances["uuid2"].props = [p |-> IntV(1)]

TornDown(hk, i) == {j \in 1..Len(hk) : hk[j].hook = "on_destroy" /\ hk[j].instance_id = i}

\* C15: a destroy request is answered ok and removes the instance also when
\* its on_destroy raises; destroy_all (run by shutdown) leaves the table empty
\* and calls on_destroy of every instance that was live, also when some of
\* these calls raise.
C15_TeardownErrorsSwallowed ==
    [][/\ (nRead' = nRead + 1 /\ req'.type = "destroy") =>
             /\ resp'.type = "ok"
             /\ req'.instance_id \notin DOMAIN instances'
             /\ req'.instance_id \in DOMAIN instances =>
                    Cardinality(TornDown(hooks', req'.instance_id)) = 1
       /\ (nRead' = nRead + 1 /\ req'.type = "shutdown") =>
             /\ instances' = EmptyMap
             /\ Len(hooks') = Cardinality(DOMAIN instances)
             /\ \A i \in DOMAIN instances : Cardinality(TornDown(hooks', i)) = 1]_vars

C15_Witness ==
    /\ req.type = "shutdown"
    /\ instances = EmptyMap
    /\ Len(hooks) = 2
    /\ hooks[1].raised # NoRaise
    /\ hooks[2].hook = "on_destroy"

\* A create or load of this step stored a new instance under id i.
StoredAnew(i) ==
    /\ nRead' = nRead + 1
    /\ req'.type \in {"create", "load"}
    /\ \E j \in 1..Len(hooks') :
          /\ hooks'[j].hook = "on_init"
          /\ hooks'[j].instance_id = i
          /\ hooks'[j].raised = NoRaise

\* C16: a live instance leaves the table, or is replaced under its id, only
\* in a destroy or shutdown step, with its on_destroy called exactly once; no
\* create or load replaces or drops a live instance.
C16_LeavesOnlyByDestruction ==
    [][\A i \in DOMAIN instances :
          (i \notin DOMAIN instances' \/ StoredAnew(i)) =>
              /\ nRead' = nRead + 1
              /\ req'.type \in {"destroy", "shutdown"}
              /\ Cardinality(TornDown(hooks', i)) = 1]_vars

C17_AfterShutdown ==
    req.type = "shutdown" =>
        /\ instances = EmptyMap
        /\ \A j \in 1..Len(hooks) : hooks[j].hook = "on_destroy"
        /\ ~shm_open
        /\ resp = _handle_shutdown_response
        /\ resp.type = "ok"
        /\ nSent = nRead
        /\ ~running
        /\ pc = "Stopped"

\* C17: a shutdown request destroys every live instance, closes the shared
\* memory reader, hands one ok acknowledgement to the writer and stops the
\* loop: once it is handled no further line is read and no response is made.
C17_ShutdownStops ==
    /\ []C17_AfterShutdown
    /\ [][req.type = "shutdown" => UNCHANGED <<nRead, nSent, req, resp, instances>>]_vars

C17_Witness ==
    /\ req.type = "shutdown"
    /\ pc = "Stopped"
    /\ shm_available
    /\ ~shm_open
    /\ Len(hooks) = 1
    /\ nRead = 2
    /\ nSent = 2

ProtocolErrorStep ==
    /\ nRead' = nRead + 1
    /\ req'.type \in {"<invalid-json>", "bogus", "<missing>"}

\* C18: a line that is not valid JSON, or a request whose type is no known
\* kind, is answered with an error response ("Invalid JSON: <detail>" or
\* "Unknown message type: <type>"), leaves the plugin table, the instance
\* table and the error records unchanged, and the loop stays Running.
C18_ProtocolErrorRecovered ==
    [][ProtocolErrorStep =>
          /\ resp'.type = "error"
          /\ resp'.message[1] = IF req'.type = "<invalid-json>" THEN "Invalid JSON: "
                                ELSE "Unknown message type: "
          /\ req'.type = "bogus" => resp'.message[2] = "bogus"
          /\ nSent' = nSent + 1
          /\ UNCHANGED <<plugins, instances, instance_errors>>
          /\ pc' = "Running"]_vars

C18_Witness ==
    /\ req.type = "bogus"
    /\ resp.type = "error"
    /\ pc = "Running"
    /\ instances # EmptyMap
    /\ instance_errors # EmptyMap

\* C19: after a scan the plugin table holds exactly the records of this
\* pass: every record was made by it from a unit found in the directory, no
\* record of an earlier scan or reload is left, and the table is empty when
\* the directory does not exist.
C19_ScanReplacesTable ==
    req.type = "scan" =>
        /\ \A m \in DOMAIN plugins :
              /\ plugins[m].gen = gen
              /\ plugins[m].module_path \in DOMAIN disk
              /\ disk[plugins[m].module_path].present
        /\ \A f \in DOMAIN disk :
              (disk[f].present /\ ~disk[f].loads) =>
                  (ErrorId(f) \in DOMAIN plugins /\ plugins[ErrorId(f)].load_error # NoError)
        /\ disk = NoDir => plugins = EmptyMap
        /\ resp.type = "scan_result"
        /\ resp.count = Cardinality(DOMAIN plugins)

C19_Witness ==
    /\ req.type = "scan"
    /\ disk # NoDir
    /\ disk["f2"] = Unit(<<ClsA, ClsBasA>>)
    /\ disk["f1"].loads
    /\ "error.f1" \notin DOMAIN plugins
    /\ plugins # EmptyMap

Declares(u, m) == u.loads /\ \E k \in 1..Len(u.classes) : u.classes[k].man = m
Collision(m) == disk # NoDir /\ Declares(disk["f1"], m) /\ Declares(disk["f2"], m)

\* C20: when two units found by one scan declare the same manifest id, the
\* scan completes and the record under that id is the one of the unit
\* enumerated later, valid and without load error.
C20_LastUnitWins ==
    \A m \in ManifestIds :
        (req.type = "scan" /\ Collision(m)) =>
            /\ resp.type = "scan_result"
            /\ m \in DOMAIN plugins
            /\ plugins[m].module_path = Files[Len(Files)]
            /\ plugins[m].load_error = NoError
            /\ plugins[m].gen = gen
            /\ \E k \in 1..Len(disk["f2"].classes) :
                  plugins[m].component_class = disk["f2"].classes[k]

C20_Witness ==
    /\ req.type = "scan"
    /\ Collision("com.b")
    /\ plugins["com.b"].component_class = ClsB
    /\ plugins["com.b"].module_path = "f2"

ErrorRecord(m) ==
    /\ m \in DOMAIN plugins
    /\ plugins[m].manifest = m
    /\ plugins[m].load_error # NoError
    /\ plugins[m].component_class = NoClass

\* C21: a unit that fails to load, or a class whose get_manifest fails or
\* returns no Manifest, does not make scan raise: it is recorded as a plugin
\* record with load-error text and no component class, and the classes of
\* every other unit are still registered.
C21_DiscoveryErrorsRecorded ==
    (req.type = "scan" /\ disk # NoDir) =>
        /\ resp.type = "scan_result"
        /\ \A f \in DOMAIN disk :
              IF ~disk[f].present THEN TRUE
              ELSE IF ~disk[f].loads THEN ErrorRecord(ErrorId(f))
              ELSE \A k \in 1..Len(disk[f].classes) :
                      LET cls == disk[f].classes[k] IN
                      IF cls.man = "bad" THEN ErrorRecord(ErrorId(cls.name))
                      ELSE /\ cls.man \in DOMAIN plugins
                           /\ plugins[cls.man].load_error = NoError
                           /\ plugins[cls.man].component_class # NoClass

C21_Witness ==
    /\ req.type = "scan"
    /\ disk # NoDir
    /\ disk["f1"] = Unit(<<ClsABad>>)
    /\ ErrorRecord("error.KA")
    /\ "com.b" \in DOMAIN plugins
    /\ plugins["com.b"].load_error = NoError

(***************************************************************************)
(* C22: when the magic number of the shared region does not match, open()  *)
(* reports failure and leaves the reader closed, and every later render    *)
(* of a live instance builds its audio snapshot from the JSON payload and  *)
(* answers with render commands, whenever that payload is an object or is  *)
(* absent.                                                                 *)
(***************************************************************************)
BadMagic == shm_region.exists /\ shm_region.size >= 4 /\ shm_region.magic # SHM_MAGIC
RenderAnswered ==
    /\ req.type = "render"
    /\ get_instance(instances, req.instance_id)
    /\ resp.type # ""
    /\ req.audio = "object"
C22_BadMagicFallsBack ==
    BadMagic =>
        /\ ~shm_available
        /\ ~shm_open
        /\ RenderAnswered =>
              /\ resp.type = "render_commands"
              /\ Len(hooks) = 1
              /\ hooks[1].hook = "on_render"
              /\ hooks[1].audio = "json"
C22_Witness ==
    /\ BadMagic
    /\ RenderAnswered
    /\ resp.type = "render_commands"
    /\ hooks[1].audio = "json"

(***************************************************************************)
(* ShmSpec: the reader against a region that the host rewrites on its own  *)
(* schedule.  The bridge opens the reader (run), reads the region for a    *)
(* render whose instance exists, and closes the reader at shutdown; the    *)
(* host publishes complete frames and may be caught in the middle of an    *)
(* update, with the frame counter not yet advanced.                        *)
(***************************************************************************)
Regions ==
    {Region(FALSE, 0, 0), Region(TRUE, 0, 252)}
    \cup {Region(TRUE, SHM_MAGIC, size) : size \in {0, 8, 100, 236, 252, 300}}

DataAreas ==
    {<<Lin("pos", 0), Lin("pos", 0 - 9)>>,
     <<Lin("pos", 0 - 12), ZeroLin, Lin("neg", 0), Lin("nan", 0)>>,
     <<Lin("pos", 1), Lin("pos", 0 - 6), Lin("pos", 0 - 5), Lin("pos", 0 - 1)>>}
Area(j) == CHOOSE d \in DataAreas : d[1] = Lin("pos", IF j = 1 THEN 0 ELSE IF j = 2 THEN 0 - 12 ELSE 1)

\* What the host may have written at frame counter frame: channel counts
\* below, at and above the capacity, and sizes that do or do not fit.
WriterHeaders(frame) ==
    {Header(frame, 2, 2, 1, Area(1)), Header(frame, 0, 2, 1, Area(1)),
     Header(frame, 8, 2, 3, Area(2)), Header(frame, 9, 2, 1, Area(3)),
     Header(frame, 1000000, 2, 1, Area(1)), Header(frame, 2, 1000000, 1, Area(1)),
     Header(frame, 2, 2, 1000000, Area(2)), Header(frame, 2, 6, 3, Area(3)),
     Header(frame, 9, 6, 1, Area(2))}

\* The bridge after construction, before run() has opened the reader, with
\* the plugin directory of the first configuration scanned.
IdleBridge ==
    /\ pc = "Running"
    /\ running = TRUE
    /\ shm_available = FALSE
    /\ shm_open = FALSE
    /\ disk = DiskOf(Unit(<<ClsA>>), Unit(<<ClsB>>))
    /\ importable = {}
    /\ gen = 0
    /\ plugins = scan(EmptyMap, disk, 0)
    /\ instances = EmptyMap
    /\ instance_errors = EmptyMap
    /\ checked = EmptyMap
    /\ uuid_count = 0
    /\ nRead = 0
    /\ nSent = 0
    /\ written = FALSE
    /\ req = NoReq
    /\ resp = NoResp
    /\ hooks = <<>>
    /\ old_plugins = EmptyMap
    /\ destroyed = {}
    /\ nEdits = 0

\* No region, and a reader that has read nothing.
IdleRegion ==
    /\ shm_region = Region(FALSE, 0, 0)
    /\ _last_frame = 0
    /\ header = InitialHeader
    /\ shm_data = NoData
    /\ frames_read = {}

ShmInit ==
    /\ IdleBridge
    /\ IdleUnit
    /\ IdleCtx
    /\ shm_region \in Regions
    /\ _last_frame = 0
    /\ header = InitialHeader
    /\ shm_data = NoData
    /\ frames_read = {}

\* bridge.py line 87: self._shm_available = self._shm_reader.open()
Run_open ==
    /\ shm_open' = open(shm_region)
    /\ shm_available' = shm_open'
    /\ UNCHANGED <<bridgeVars, unitVars, ctxVars, regionVars, shm_region, _last_frame, nRead>>

\* bridge.py lines 200-201: the read of a render, taken when the flag is set
\* and the reader is open.
Render_read ==
    /\ shm_available /\ shm_open
    /\ nRead < MaxSteps
    /\ nRead' = nRead + 1
    /\ LET r == read_raw(shm_open, shm_region.size, _last_frame, header) IN
         /\ shm_data' = r.data
         /\ _last_frame' = r.last_frame
    /\ frames_read' = IF Readable(shm_region.size, 8, 4)
                      THEN frames_read \cup {header.frame} ELSE frames_read
    /\ UNCHANGED <<bridgeVars, unitVars, ctxVars, shm_region, header, shm_available, shm_open>>

\* bridge.py line 302: self._shm_reader.close()
Shutdown_close ==
    /\ shm_open
    /\ shm_open' = FALSE
    /\ UNCHANGED <<bridgeVars, unitVars, ctxVars, regionVars, shm_region, shm_available, _last_frame, nRead>>

\* has_new_frame() called by the component or the bridge: result keeps what
\* the call found (reader open or not, the counter in the region, the
\* counters read so far) and what it returned.
Reader_has_new_frame ==
    /\ result' = [is_open |-> shm_open, frame |-> header.frame, read |-> frames_read,
                  ret |-> has_new_frame(shm_open, _last_frame, header)]
    /\ UNCHANGED <<bridgeVars, ctxVars, regionVars, shm_region, shm_available, shm_open,
                   _last_frame, nRead, descriptor, arg, again>>

\* The host completes a frame: the counter advances by one.
Writer_publish ==
    /\ shm_region.exists
    /\ header.frame < MaxFrame
    /\ header' \in WriterHeaders(header.frame + 1)
    /\ UNCHANGED <<bridgeVars, unitVars, ctxVars, shm_region, shm_data, frames_read, shm_available, shm_open,
                   _last_frame, nRead>>

\* The host is in the middle of an update: fields of the next frame are in
\* place, the counter is still the old one.
Writer_partial ==
    /\ shm_region.exists
    /\ header' \in WriterHeaders(header.frame) \ {header}
    /\ UNCHANGED <<bridgeVars, unitVars, ctxVars, shm_region, shm_data, frames_read, shm_available, shm_open,
                   _last_frame, nRead>>

ShmNext ==
    \/ Run_open
    \/ Render_read
    \/ Reader_has_new_frame
    \/ Shutdown_close
    \/ Writer_publish
    \/ Writer_partial

ShmSpec == ShmInit /\ [][ShmNext]_vars

(***************************************************************************)
(* C23: a render whose transport is open reads the region anew: the read   *)
(* takes the frame counter it finds, and its result is the same whatever   *)
(* counter the previous read saw, so a read that finds the counter         *)
(* unchanged returns a snapshot exactly when a first read would.           *)
(***************************************************************************)
C23_FreshReadEachRender ==
    [][Render_read =>
         /\ _last_frame' = header.frame
         /\ \A lf \in 0..MaxFrame :
               read_raw(TRUE, shm_region.size, lf, header).data = shm_data']_vars
C23_Witness ==
    /\ nRead = 2
    /\ header.frame = 0
    /\ _last_frame = 0
    /\ shm_data # NoData

(***************************************************************************)
(* C24: a render served while the transport is open, whatever the host has *)
(* written of the frame at that moment, leaves the loop running and sends  *)
(* one response: the read gives a snapshot or fails inside read_raw and    *)
(* the snapshot is built from the JSON payload; with a payload that is an  *)
(* object or absent the response carries render commands, and the only     *)
(* error response is the one for a payload that is not an object.          *)
(***************************************************************************)
RenderStep == nRead' = nRead + 1 /\ req'.type = "render"
C24_TornReadFallsBack ==
    [][RenderStep /\ get_instance(instances, req'.instance_id) /\ shm_available /\ shm_open =>
         /\ pc' = "Running"
         /\ running'
         /\ shm_open'
         /\ nSent' = nSent + 1
         /\ resp'.type \in {"render_commands", "error"}
         /\ req'.audio = "object" =>
               /\ resp'.type = "render_commands"
               /\ hooks'[1].audio \in {"shm", "json"}
         /\ resp'.type = "error" =>
               /\ req'.audio = "bad"
               /\ resp'.message = <<"AttributeError">>]_vars
C24_Witness ==
    /\ shm_available
    /\ shm_open
    /\ RenderAnswered
    /\ resp.type = "render_commands"
    /\ hooks[1].audio = "json"

(***************************************************************************)
(* C25: whatever channel count the header carries, a read that returns a   *)
(* snapshot has read min(count, 8) channel records, record i (from 0) at   *)
(* offset 76 + 20*i with i < 8, and none of them reaches past offset 236,  *)
(* where the spectrum begins.                                              *)
(***************************************************************************)
C25_ChannelReadsBounded ==
    shm_data # NoData =>
        /\ Len(shm_data.channels) = Min2(shm_data.num_channels, SHM_MAX_CHANNELS)
        /\ \A i \in 1..Len(shm_data.channels) :
              /\ i - 1 < SHM_MAX_CHANNELS
              /\ shm_data.channels[i].off = SHM_CHANNELS_OFFSET + SHM_CHANNEL_STRIDE * (i - 1)
              /\ shm_data.channels[i].off + SHM_CHANNEL_STRIDE <= SHM_SPECTRUM_OFFSET
C25_Witness ==
    /\ shm_data # NoData
    /\ shm_data.num_channels > SHM_MAX_CHANNELS
    /\ Len(shm_data.channels) = SHM_MAX_CHANNELS

(***************************************************************************)
(* C26: every decibel value of the spectrum of a snapshot read from the    *)
(* region is 20*log10 of its linear value floored at -100: it is never     *)
(* below -100, and equals -100 for a linear value that is zero, negative,  *)
(* NaN or at most 10^-5.                                                   *)
(***************************************************************************)
C26_SpectrumFlooredAtSentinel ==
    shm_data # NoData =>
        \A k \in 1..Len(shm_data.spectrum) :
           LET v == shm_data.spectrum_linear[k] IN
           /\ shm_data.spectrum[k] >= 0 - 100
           /\ shm_data.spectrum[k] =
                 IF v.sign = "pos" /\ 20 * v.exp > 0 - 100 THEN 20 * v.exp ELSE 0 - 100

(***************************************************************************)
(* bridge.py, _build_audio_data: the snapshot built from a dict.  A dict   *)
(* is a function over the keys it holds; levels are in dB, linear values   *)
(* in thousandths.                                                         *)
(***************************************************************************)
Get(m, k, default) == IF k \in DOMAIN m THEN m[k] ELSE default

\* audio_data.py: ChannelData() and the AudioData snapshot.
ChannelData(rms, peak, rms_linear) == [rms |-> rms, peak |-> peak, rms_linear |-> rms_linear]
ChannelDefault == ChannelData(0, 0, 0)

\* Lines 311-319: one ChannelData per entry of d["channels"].
ChannelsOf(d) ==
    LET list == Get(d, "channels", <<>>) IN
    [i \in 1..Len(list) |-> ChannelData(Get(list[i], "rms", 0 - 100),
                                        Get(list[i], "peak", 0 - 100),
                                        Get(list[i], "rms_linear", 0))]

\* Lines 323-342.
AudioData(d, channels) ==
    [sample_rate |-> Get(d, "sample_rate", 44100),
     num_channels |-> Get(d, "num_channels", 2),
     is_playing |-> Get(d, "is_playing", FALSE),
     channels |-> channels,
     spectrum |-> Get(d, "spectrum", <<>>),
     fft_size |-> Get(d, "fft_size", 2048),
     lufs_momentary |-> Get(d, "lufs_momentary", 0 - 100),
     bpm |-> Get(d, "bpm", 0)]

\* Mutant: an empty channel list is kept empty.
_build_audio_data_empty(d) == AudioData(d, ChannelsOf(d))

_build_audio_data(d) ==
    AudioData(d, IF ChannelsOf(d) = <<>> THEN <<ChannelDefault, ChannelDefault>>
                 ELSE ChannelsOf(d))

(***************************************************************************)
(* AudioSpec: _build_audio_data applied to the payloads a request may      *)
(* carry: any subset of the scalar fields, and no channel list, an empty   *)
(* one, or entries that hold all, some or none of their fields.            *)
(***************************************************************************)
ScalarFields ==
    [sample_rate |-> 48000, num_channels |-> 1, is_playing |-> TRUE,
     fft_size |-> 4096, lufs_momentary |-> 0 - 23, bpm |-> 120]
ChannelEntry(keys) == [k \in keys |-> IF k = "rms_linear" THEN 250 ELSE 0 - 6]
ChannelLists ==
    {<<>>, <<ChannelEntry({})>>, <<ChannelEntry({"rms", "peak", "rms_linear"})>>,
     <<ChannelEntry({"rms"}), ChannelEntry({"peak", "rms_linear"})>>}
AudioPayloads ==
    {[k \in keys |-> ScalarFields[k]] : keys \in SUBSET (DOMAIN ScalarFields)}
    \cup {[k \in keys \cup {"channels"} |-> IF k = "channels" THEN list ELSE ScalarFields[k]] :
             keys \in SUBSET {"sample_rate", "num_channels", "fft_size"}, list \in ChannelLists}

AudioInit ==
    /\ IdleBridge
    /\ IdleRegion
    /\ IdleCtx
    /\ descriptor = NotCalled
    /\ arg \in AudioPayloads
    /\ result = NotCalled
    /\ again = NotCalled

\* bridge.py lines 206 and 208: audio = _build_audio_data(msg.get("audio", {}))
BuildAudio ==
    /\ result = NotCalled
    /\ result' = _build_audio_data(arg)
    /\ UNCHANGED <<bridgeVars, shm_available, shm_open, nRead, shm_region, _last_frame,
                   regionVars, ctxVars, descriptor, arg, again>>

AudioNext == BuildAudio

AudioSpec == AudioInit /\ [][AudioNext]_vars

(***************************************************************************)
(* C27: in the snapshot built from a payload, every field the payload does *)
(* not hold has its default (sample rate 44100, channel count 2, not       *)
(* playing, FFT size 2048, momentary loudness -100, tempo 0, empty         *)
(* spectrum), every field it holds is taken over, and the channel list is  *)
(* never empty: two channels of zeros stand in for a missing or empty      *)
(* list.  The empty payload gives the snapshot made of defaults only.      *)
(***************************************************************************)
C27_Defaults ==
    [sample_rate |-> 44100, num_channels |-> 2, is_playing |-> FALSE,
     fft_size |-> 2048, lufs_momentary |-> 0 - 100, bpm |-> 0]
C27_PayloadDefaults ==
    result # NotCalled =>
        /\ \A k \in DOMAIN C27_Defaults :
              result[k] = IF k \in DOMAIN arg THEN arg[k] ELSE C27_Defaults[k]
        /\ result.spectrum = <<>>
        /\ result.channels # <<>>
        /\ ("channels" \notin DOMAIN arg \/ arg["channels"] = <<>>)
              => result.channels = <<ChannelData(0, 0, 0), ChannelData(0, 0, 0)>>
        /\ ("channels" \in DOMAIN arg /\ arg["channels"] # <<>>)
              => Len(result.channels) = Len(arg["channels"])
C27_Witness ==
    /\ DOMAIN arg = {}
    /\ result # NotCalled
    /\ Len(result.channels) = 2
    /\ result.sample_rate = 44100

(***************************************************************************)
(* render_context.py: the command buffer of one RenderContext.  A string   *)
(* is a sequence of characters, an optional string a record [none, s], a   *)
(* colour a record of components; alpha stays below 128 so that the ARGB   *)
(* word is a number TLC can hold.                                          *)
(***************************************************************************)
None == [none |-> TRUE, s |-> <<>>]
Some(s) == [none |-> FALSE, s |-> s]
\* Python truth of an Optional[str]: None and "" are false.
Truthy(o) == ~o.none /\ o.s # <<>>

Color(r, g, b, a) == [r |-> r, g |-> g, b |-> b, a |-> a]
\* color.py line 65: (a << 24) | (r << 16) | (g << 8) | b
to_argb(c) == c.a * 16777216 + c.r * 65536 + c.g * 256 + c.b

_RenderCmd(type, params) == [type |-> type, params |-> params]
NoParams == [k \in {} |-> 0]

\* _RenderCmd.to_dict: "cmd" and the parameters, a Color as its ARGB word.
to_dict(c) ==
    [k \in {"cmd"} \cup DOMAIN c.params |->
        IF k \in DOMAIN c.params
        THEN (IF k = "color" THEN to_argb(c.params[k]) ELSE c.params[k])
        ELSE c.type]

\* Mutant: the buffer is handed out and kept.
_get_commands_keeps(buf) ==
    [ret |-> [i \in 1..Len(buf) |-> to_dict(buf[i])], _commands |-> buf]

\* Lines 161-165: [ret, _commands].
_get_commands(buf) ==
    [ret |-> [i \in 1..Len(buf) |-> to_dict(buf[i])], _commands |-> <<>>]

\* Lines 169-171, 175-185, 408-409.
clear(buf, color) == Append(buf, _RenderCmd("clear", [color |-> color]))
fill_rect(buf, x, y, w, h, color) ==
    Append(buf, _RenderCmd("fill_rect", [x |-> x, y |-> y, w |-> w, h |-> h, color |-> color]))
reset_clip(buf) == Append(buf, _RenderCmd("reset_clip", NoParams))

\* hashlib.md5(text).hexdigest(), kept as the text it digests.
Md5(text) == <<"md5(">> \o text \o <<")">>

ShaderCall(fragment_source, compute_source, cache_key, kwargs) ==
    [method |-> "draw_custom_shader", fragment_source |-> fragment_source,
     compute_source |-> compute_source, cache_key |-> cache_key, kwargs |-> kwargs]

\* Mutant: the uniforms take part in the derived key.
draw_custom_shader_uniform_key(buf, call) ==
    LET hash_input == call.fragment_source
                      \o (IF Truthy(call.compute_source) THEN call.compute_source.s ELSE <<>>)
                      \o (IF DOMAIN call.kwargs = {} THEN <<>> ELSE <<"u">>)
        key == IF Truthy(call.cache_key) THEN call.cache_key.s
               ELSE <<"_custom_">> \o Md5(hash_input)
    IN Append(buf, _RenderCmd("draw_custom_shader",
                   [cache_key |-> key, fragment_source |-> call.fragment_source,
                    compute_source |-> IF Truthy(call.compute_source) THEN call.compute_source.s ELSE <<>>,
                    uniforms |-> Update(NoParams, call.kwargs)]))

\* Lines 694-712.
draw_custom_shader(buf, call) ==
    LET hash_input == call.fragment_source
                      \o (IF Truthy(call.compute_source) THEN call.compute_source.s ELSE <<>>)
        key == IF Truthy(call.cache_key) THEN call.cache_key.s
               ELSE <<"_custom_">> \o Md5(hash_input)
    IN Append(buf, _RenderCmd("draw_custom_shader",
                   [cache_key |-> key, fragment_source |-> call.fragment_source,
                    compute_source |-> IF Truthy(call.compute_source) THEN call.compute_source.s ELSE <<>>,
                    uniforms |-> Update(NoParams, call.kwargs)]))

(***************************************************************************)
(* CtxSpec: a render context on which a component makes up to MaxOps       *)
(* calls, drawing calls and drains in any order.  ops keeps the calls.     *)
(***************************************************************************)
Colors == {Color(0, 0, 0, 127), Color(255, 0, 0, 0)}
ShaderCalls ==
    {c \in {ShaderCall(f, cs, ck, kw) :
               f \in {<<"a">>, <<"a", "b">>},
               cs \in {None, Some(<<"b">>)},
               ck \in {None, Some(<<>>), Some(<<"k">>)},
               kw \in {NoParams, [k \in {"u_count"} |-> 1]}} :
        c.cache_key.none \/ c.kwargs = NoParams}

CtxInit ==
    /\ IdleBridge
    /\ IdleRegion
    /\ IdleUnit
    /\ _commands = <<>>
    /\ cmds = <<>>
    /\ ops = <<>>

CtxRest == <<bridgeVars, shm_available, shm_open, nRead, shm_region, _last_frame,
             regionVars, unitVars>>

Ctx_clear ==
    /\ Len(ops) < MaxOps
    /\ \E color \in Colors :
         /\ _commands' = clear(_commands, color)
         /\ ops' = Append(ops, [method |-> "clear", color |-> color])
    /\ UNCHANGED <<CtxRest, cmds>>

Ctx_fill_rect ==
    /\ Len(ops) < MaxOps
    /\ _commands' = fill_rect(_commands, 10, 10, 100, 50, Color(255, 0, 0, 127))
    /\ ops' = Append(ops, [method |-> "fill_rect"])
    /\ UNCHANGED <<CtxRest, cmds>>

Ctx_reset_clip ==
    /\ Len(ops) < MaxOps
    /\ _commands' = reset_clip(_commands)
    /\ ops' = Append(ops, [method |-> "reset_clip"])
    /\ UNCHANGED <<CtxRest, cmds>>

Ctx_draw_custom_shader ==
    /\ Len(ops) < MaxOps
    /\ \E call \in ShaderCalls :
         /\ _commands' = draw_custom_shader(_commands, call)
         /\ ops' = Append(ops, call)
    /\ UNCHANGED <<CtxRest, cmds>>

Ctx_get_commands ==
    /\ Len(ops) < MaxOps
    /\ cmds' = _get_commands(_commands).ret
    /\ _commands' = _get_commands(_commands)._commands
    /\ ops' = Append(ops, [method |-> "_get_commands"])
    /\ UNCHANGED CtxRest

CtxNext ==
    \/ Ctx_clear
    \/ Ctx_fill_rect
    \/ Ctx_reset_clip
    \/ Ctx_draw_custom_shader
    \/ Ctx_get_commands

CtxSpec == CtxInit /\ [][CtxNext]_vars

\* The calls made since the context was created or last drained.
Pending(history) ==
    LET drains == {i \in 1..Len(history) : history[i].method = "_get_commands"}
        last == IF drains = {} THEN 0 ELSE CHOOSE i \in drains : \A j \in drains : j <= i
    IN SubSeq(history, last + 1, Len(history))

(***************************************************************************)
(* C28: a drain returns one command per drawing call made since the        *)
(* context was created or last drained, in the order of the calls, and     *)
(* leaves the buffer empty; a drain that follows a drain returns the empty *)
(* sequence.  Between drains the buffer holds one command per call.        *)
(***************************************************************************)
DrainStep == Len(ops') = Len(ops) + 1 /\ ops'[Len(ops')].method = "_get_commands"
C28_DrainReturnsPendingOnce ==
    [][/\ Len(_commands') = Len(Pending(ops'))
       /\ DrainStep =>
            /\ Len(cmds') = Len(Pending(ops))
            /\ \A i \in 1..Len(cmds') : cmds'[i].cmd = Pending(ops)[i].method
            /\ _commands' = <<>>
            /\ (Pending(ops) = <<>> => cmds' = <<>>)]_vars
C28_Witness ==
    /\ Len(ops) = 3
    /\ ops[1].method = "clear"
    /\ ops[2].method = "_get_commands"
    /\ ops[3].method = "_get_commands"
    /\ cmds = <<>>
    /\ _commands = <<>>

(***************************************************************************)
(* C29, as stated: of the custom-shader commands in the buffer, those      *)
(* whose call passed no cache key carry a key that depends on the shader   *)
(* sources only (same fragment and compute source, same key, whatever the  *)
(* uniforms and the calls before), and those whose call passed a key carry *)
(* that key unchanged.                                                     *)
(***************************************************************************)
ShaderAt(i) == _commands[i].type = "draw_custom_shader"
SameSource(a, b) ==
    /\ a.fragment_source = b.fragment_source
    /\ a.compute_source = b.compute_source
C29_KeyFromSourceOrCaller ==
    \A i \in 1..Len(_commands) :
       ShaderAt(i) =>
          LET call == Pending(ops)[i] IN
          /\ ~call.cache_key.none => _commands[i].params.cache_key = call.cache_key.s
          /\ call.cache_key.none =>
                \A j \in 1..Len(_commands) :
                   (ShaderAt(j) /\ Pending(ops)[j].cache_key.none
                      /\ SameSource(call, Pending(ops)[j]))
                   => _commands[j].params.cache_key = _commands[i].params.cache_key

(***************************************************************************)
(* C29, amended: a call that passes no cache key, or the empty string as   *)
(* its key, records a key that depends on the shader sources only; a call  *)
(* that passes a non-empty key records that key unchanged.                 *)
(***************************************************************************)
C29_KeyFromSourceOrNonEmptyKey ==
    \A i \in 1..Len(_commands) :
       ShaderAt(i) =>
          LET call == Pending(ops)[i] IN
          /\ Truthy(call.cache_key) => _commands[i].params.cache_key = call.cache_key.s
          /\ ~Truthy(call.cache_key) =>
                /\ _commands[i].params.cache_key # call.cache_key.s
                /\ \A j \in 1..Len(_commands) :
                      (ShaderAt(j) /\ ~Truthy(Pending(ops)[j].cache_key)
                         /\ SameSource(call, Pending(ops)[j]))
                      => _commands[j].params.cache_key = _commands[i].params.cache_key
C29_Witness ==
    /\ Len(_commands) = 3
    /\ ShaderAt(1)
    /\ _commands[2].type = "clear"
    /\ ShaderAt(3)
    /\ ops[1].cache_key.none
    /\ ops[3].cache_key.none
    /\ SameSource(ops[1], ops[3])
    /\ ops[1].kwargs # ops[3].kwargs
    /\ _commands[1].params.cache_key = _commands[3].params.cache_key

(***************************************************************************)
(* PropSpec: Property.validate applied once to an input, for descriptors   *)
(* of the numeric kinds with integer bounds, fractional bounds, one bound  *)
(* or none.                                                                *)
(***************************************************************************)
Bounds ==
    {<<IntV(0), IntV(2)>>, <<FloatV(1), FloatV(3)>>, <<FloatV(0 - 3), FloatV(0 - 1)>>,
     <<IntV(0), NoneV>>, <<NoneV, NoneV>>}
Descriptors ==
    {[key |-> "p", type |-> t, default |-> IntV(1), min_value |-> b[1], max_value |-> b[2]] :
        t \in {"INT", "FLOAT", "RANGE"}, b \in Bounds}
Inputs ==
    {IntV(n) : n \in (0 - 3)..3} \cup {FloatV(h) : h \in {0 - 5, 0 - 1, 1, 5}}
    \cup {InfV(1), InfV(0 - 1), NanV, NoneV, StrV}

PropInit ==
    /\ IdleBridge
    /\ IdleRegion
    /\ IdleCtx
    /\ descriptor \in Descriptors
    /\ arg \in Inputs
    /\ result = NotCalled
    /\ again = NotCalled

Validate ==
    /\ result = NotCalled
    /\ result' = validate(descriptor, arg)
    /\ UNCHANGED <<bridgeVars, shm_available, shm_open, nRead, shm_region, _last_frame,
                   regionVars, ctxVars, descriptor, arg, again>>

\* validate applied to the value an earlier validate returned.
Revalidate ==
    /\ result # NotCalled
    /\ result.ok
    /\ again = NotCalled
    /\ again' = validate(descriptor, result.value)
    /\ UNCHANGED <<bridgeVars, shm_available, shm_open, nRead, shm_region, _last_frame,
                   regionVars, ctxVars, descriptor, arg, result>>

PropNext == Validate \/ Revalidate

PropSpec == PropInit /\ [][PropNext]_vars

(***************************************************************************)
(* C30: for a descriptor of kind INT, FLOAT or RANGE that declares both    *)
(* bounds and a numeric input (an integer, a float, an infinity), validate *)
(* does not raise and returns a value between min and max: min for an      *)
(* input below min, max for an input above max.                            *)
(***************************************************************************)
Numeric(v) == v.kind \in {"int", "float", "inf"}
Bounded(prop) == prop.min_value.kind # "none" /\ prop.max_value.kind # "none"
C30_ClampsIntoBounds ==
    (result # NotCalled /\ Bounded(descriptor) /\ Numeric(arg)) =>
        /\ result.ok
        /\ ~Gt(descriptor.min_value, result.value)
        /\ ~Gt(result.value, descriptor.max_value)
        /\ Gt(descriptor.min_value, arg) => Ext(result.value) = Ext(descriptor.min_value)
        /\ Gt(arg, descriptor.max_value) => Ext(result.value) = Ext(descriptor.max_value)

(***************************************************************************)
(* C31: for a descriptor of kind INT, FLOAT or RANGE and every input that  *)
(* validate accepts, validating the validated value returns it again:      *)
(* validate(validate(x)) == validate(x), with == as Python compares.       *)
(***************************************************************************)
PyEq(a, b) ==
    IF Numeric(a) /\ Numeric(b) THEN Ext(a) = Ext(b)
    ELSE a.kind # "nan" /\ b.kind # "nan" /\ a = b
C31_ValidateIdempotent ==
    again # NotCalled => again.ok /\ PyEq(again.value, result.value)

(***************************************************************************)
(* C32: a set_property request for the declared key of a live instance,    *)
(* whose hook does not raise, is answered ok, and the property map then    *)
(* holds the validated value when the value can be coerced to the declared *)
(* kind and the value as given when it cannot.                             *)
(***************************************************************************)
SetDeclared ==
    /\ req.type = "set_property"
    /\ req.key = Property_p.key
    /\ resp # NotFound(req.instance_id)
    /\ hooks = <<>> \/ hooks[1].raised = NoRaise
C32_UncoercibleKeptAsGiven ==
    SetDeclared =>
        /\ resp.type = "ok"
        /\ req.instance_id \in DOMAIN instances
        /\ instances[req.instance_id].props[req.key] =
               IF validate(Property_p, req.value).ok
               THEN validate(Property_p, req.value).value
               ELSE req.value

(***************************************************************************)
(* DepSpec: the process-wide availability cache of dependencies.py.  The   *)
(* process calls is_available and install_package; outside the process a   *)
(* package may be removed from or added to the interpreter's environment.  *)
(* result is the call made by the last step and what it returned.          *)
(***************************************************************************)
DepPackages == {"numpy", "scipy", "json"}
DepCall(op, pkg, ret) == [op |-> op, pkg |-> pkg, ret |-> ret]
depRest == <<pc, running, plugins, instances, instance_errors, disk, gen, uuid_count,
             nSent, written, req, resp, hooks, old_plugins, destroyed, nEdits,
             shm_available, shm_open, nRead, shm_region, _last_frame, regionVars, ctxVars,
             descriptor, arg, again>>

DepInit ==
    /\ pc = "Running" /\ running = TRUE /\ shm_available = FALSE /\ shm_open = FALSE
    /\ disk = DiskOf(Unit(<<ClsA>>), Unit(<<ClsB>>))
    /\ gen = 0
    /\ plugins = scan(EmptyMap, disk, 0)
    /\ instances = EmptyMap /\ instance_errors = EmptyMap
    /\ uuid_count = 0 /\ nRead = 0 /\ nSent = 0 /\ written = FALSE
    /\ req = NoReq /\ resp = NoResp /\ hooks = <<>>
    /\ old_plugins = EmptyMap /\ destroyed = {} /\ nEdits = 0
    /\ IdleRegion
    /\ IdleCtx
    /\ descriptor = NotCalled /\ arg = NotCalled /\ again = NotCalled
    /\ result = NotCalled
    /\ checked = EmptyMap
    /\ importable \in SUBSET (DepPackages \ BUILTIN_PACKAGES)

Dep_is_available ==
    /\ \E pkg \in DepPackages :
         LET a == is_available(checked, importable, pkg) IN
         /\ checked' = a.checked
         /\ result' = DepCall("is_available", pkg, a.ret)
    /\ UNCHANGED <<importable, depRest>>

Dep_install_package ==
    /\ \E pkg \in DepPackages, pipOk \in BOOLEAN :
         LET i == install_package(checked, importable, pkg, pipOk) IN
         /\ checked' = i.checked
         /\ importable' = i.importable
         /\ result' = DepCall("install_package", pkg, i.ret)
    /\ UNCHANGED depRest

\* The environment changes behind the cache: a package is removed or added
\* by something other than install_package.
Dep_environment ==
    /\ \E pkg \in DepPackages \ BUILTIN_PACKAGES :
         importable' = IF pkg \in importable THEN importable \ {pkg} ELSE importable \cup {pkg}
    /\ result' = NotCalled
    /\ UNCHANGED <<checked, depRest>>

DepNext == Dep_is_available \/ Dep_install_package \/ Dep_environment

DepSpec == DepInit /\ [][DepNext]_vars

(***************************************************************************)
(* C33: a cached availability result of a package is what every later      *)
(* is_available of that package returns, and it stays in the cache, until  *)
(* an install_package of that package succeeds; a successful install       *)
(* removes that package's entry and no other, a failed install removes and *)
(* changes nothing.                                                        *)
(***************************************************************************)
Installed(call, pkg) == call = DepCall("install_package", pkg, TRUE)
C33_CacheHeldUntilInstall ==
    [][\A pkg \in DepPackages :
          /\ (pkg \in DOMAIN checked /\ ~Installed(result', pkg)) =>
                 /\ pkg \in DOMAIN checked'
                 /\ checked'[pkg] = checked[pkg]
                 /\ (result' # NotCalled /\ result'.op = "is_available" /\ result'.pkg = pkg)
                        => result'.ret = checked[pkg]
          /\ Installed(result', pkg) => pkg \notin DOMAIN checked'
          /\ (result' # NotCalled /\ result'.op = "install_package" /\ ~result'.ret)
                 => checked' = checked]_vars

\* A stale answer: numpy is reported available from the cache after it was
\* removed from the environment.
C33_Witness ==
    /\ result = DepCall("is_available", "numpy", TRUE)
    /\ "numpy" \notin importable
    /\ "scipy" \in DOMAIN checked

(***************************************************************************)
(* C34: has_new_frame() returns true exactly when the reader is open and   *)
(* the writer has published a frame (counter 1 or more) whose counter no   *)
(* read of the reader has taken yet, a frame published before the first    *)
(* read included; so it is false after a read until the next publication,  *)
(* and false when the region is not open.                                  *)
(***************************************************************************)
HasNewFrameCalled == result # NotCalled
C35_HasErrorIffRaisedNow ==
    resp.type = "render_commands" =>
        /\ req.type = "render"
        /\ hooks # <<>>
        /\ hooks[1].hook = "on_render"
        /\ resp.has_error <=> hooks[1].raised # NoRaise
        /\ resp.has_error <=> req.instance_id \in DOMAIN instance_errors
C35_Witness ==
    /\ resp.type = "render_commands"
    /\ ~resp.has_error
    /\ hooks[1].raised = NoRaise
    /\ hooks[1].issued > 0
    /\ nRead = 3

(***************************************************************************)
(* C36: in every reachable state each record of the plugin table is stored *)
(* under the id of its own manifest, and it has a component class exactly  *)
(* when it has no load-error text; scans, reloads (failed ones included)   *)
(* and creates keep this.                                                  *)
(***************************************************************************)
C36_PluginTableWellFormed ==
    \A k \in DOMAIN plugins :
        /\ plugins[k].manifest = k
        /\ plugins[k].component_class # NoClass <=> plugins[k].load_error = NoError
C36_Witness ==
    /\ req.type = "reload"
    /\ resp.type = "error"
    /\ ErrorId("f1") \in DOMAIN plugins
    /\ "com.a" \in DOMAIN plugins
    /\ plugins["com.a"].load_error = NoError
    /\ plugins[ErrorId("f1")].component_class = NoClass

(***************************************************************************)
(* C37: the instance_id of a created response is the id under which the    *)
(* new instance is registered, also when the request carried no id and the *)
(* registry generated one: the id names a live instance of the requested   *)
(* manifest.                                                               *)
(***************************************************************************)
C37_CreatedIdIsRegisteredId ==
    (req.type = "create" /\ resp.type = "created") =>
        /\ resp.instance_id \in DOMAIN instances
        /\ instances[resp.instance_id].cls.man = req.manifest_id

(***************************************************************************)
(* C38: a reload that returns false (answered by an error) leaves the      *)
(* whole plugin table as it was before the call: no record is added,       *)
(* removed or changed, for the reloaded id or for any other.               *)
(***************************************************************************)
ReloadStep == nRead' = nRead + 1 /\ req'.type = "reload"
C38_FailedReloadLeavesTable ==
    [][(ReloadStep /\ resp'.type = "error") => plugins' = plugins]_vars

(***************************************************************************)
(* C39: error records exist only for live instances: the ids that have a   *)
(* last-error text are always a subset of the live-instance ids, so after  *)
(* destroy(X), destroy_all or shutdown nothing remains recorded for X.     *)
(***************************************************************************)
C39_ErrorsOnlyForLive == DOMAIN instance_errors \subseteq DOMAIN instances

(***************************************************************************)
(* C40: whenever the loop reaches Stopped, by a shutdown request or by      *)
(* end-of-input, every instance that was live has had on_destroy invoked   *)
(* and the shared-memory reader is closed.                                 *)
(***************************************************************************)
C40_StoppedTornDownAndClosed ==
    [][(pc = "Running" /\ pc' = "Stopped") =>
          /\ \A i \in DOMAIN instances : TornDown(hooks', i) # {}
          /\ instances' = EmptyMap
          /\ ~shm_open']_vars

====
